---- MODULE Spec2Model ----
(***************************************************************************)
(* Annotation reconciliation and the Samples built for upload              *)
(* (test/test_datasets.py), the COCO round-trip comparator, the geometry   *)
(* transform and the COCO conversions (test/test_coco_studio_roundtrip.py) *)
(* and the sequence identifiers (test/test_advanced.py); the progress      *)
(* callback (examples/download.py), the token storage                      *)
(* (test/test_storage.py), the label re-indexing (examples/coco.py) and    *)
(* the pagination (test/test_deer_annotations_raw.py).                     *)
(*                                                                         *)
(* Conventions of the model                                                *)
(*   - A Python value that may be None is a sequence of length 0 (None)    *)
(*     or 1 (the value): None == <<>>, Some(v) == <<v>>.                   *)
(*   - A Python str is a sequence of one-character strings, ordered by     *)
(*     code point (Ord).                                                   *)
(*   - A normalized coordinate of an annotation is an integer number of    *)
(*     1e-7 units; round(value, 6) yields an integer number of 1e-6 units. *)
(*   - A COCO coordinate is a rational <<numerator, denominator>>.         *)
(***************************************************************************)
EXTENDS Integers, Sequences, FiniteSets, TLC

VARIABLES
    annotations,   \* argument of _build_annotation_map
    cursor,        \* annotations consumed by the loop of _build_annotation_map
    grouped,       \* the dict built by _build_annotation_map
    status,        \* "running" | "done" (map returned) | "failed" (raised)
    original,      \* arguments of _compare_coco_annotations
    exported,
    tolerance,
    orig_grouped,  \* locals of _compare_coco_annotations (group_by_image)
    export_grouped,
    results,       \* None until _compare_coco_annotations has returned
    geometry,           \* arguments of the geometry conversions
    normalized_bbox,    \* None until coco_bbox_to_normalized has ended
    normalized_polygon, \* None until coco_polygon_to_normalized has ended
    coco_bbox,          \* None until normalized_bbox_to_coco has ended
    conversion,         \* arguments of coco_to_samples or samples_to_coco
    converted,          \* None until that conversion has ended
    converted_back,     \* None until its result has been converted back
    sequence,           \* what is run: the function and its arguments
    sequence_uuids,     \* results of the calls of generate_sequence_uuid
    uploads,            \* the Samples built for upload so far
    payload_info,       \* None until _build_samples_payload has ended
    pbar,  \* the progress bar the callback updates: position n and total
    reports, \* the (current, total) reports made to the callback so far
    storages,  \* the _token of each of the two storage objects
    storage_calls, \* the calls made on the storage objects, each with what it returned
    dataset_labels,  \* the labels as fetched by dataset.labels(client)
    label_index,  \* the index the server holds for each label name
    indexing, \* the pass of the re-indexing and the labels it has done
    collect,  \* the locals of _collect_samples and how it ended
    rpc_log  \* the samples.list requests made, each with its result

vars == <<annotations, cursor, grouped, status,
          original, exported, tolerance, orig_grouped, export_grouped, results,
          geometry, normalized_bbox, normalized_polygon, coco_bbox,
          conversion, converted, converted_back,
          sequence, sequence_uuids, uploads, payload_info,
          pbar, reports,
          storages, storage_calls,
          dataset_labels, label_index, indexing,
          collect, rpc_log>>

reconcilerVars == <<annotations, cursor, grouped, status>>
comparatorVars ==
    <<original, exported, tolerance, orig_grouped, export_grouped, results>>
geometryVars == <<geometry, normalized_bbox, normalized_polygon, coco_bbox>>

conversionVars == <<conversion, converted, converted_back>>
sequenceVars == <<sequence, sequence_uuids, uploads, payload_info>>

\* The variables of the utilities
progressVars == <<pbar, reports>>
storageVars == <<storages, storage_calls>>
indexingVars == <<dataset_labels, label_index, indexing>>
collectVars == <<collect, rpc_log>>
coreVars ==
    <<reconcilerVars, comparatorVars, geometryVars, conversionVars,
      sequenceVars>>
utilityVars == <<progressVars, storageVars, indexingVars, collectVars>>
exceptProgress == <<coreVars, storageVars, indexingVars, collectVars>>
exceptStorage == <<coreVars, progressVars, indexingVars, collectVars>>
exceptIndexing == <<coreVars, progressVars, storageVars, collectVars>>
exceptCollect == <<coreVars, progressVars, storageVars, indexingVars>>

exceptReconciler ==
    <<comparatorVars, geometryVars, conversionVars, sequenceVars,
      utilityVars>>
exceptComparator ==
    <<reconcilerVars, geometryVars, conversionVars, sequenceVars,
      utilityVars>>
exceptGeometry ==
    <<reconcilerVars, comparatorVars, conversionVars, sequenceVars,
      utilityVars>>
exceptConversion ==
    <<reconcilerVars, comparatorVars, geometryVars, sequenceVars,
      utilityVars>>
exceptSequence ==
    <<reconcilerVars, comparatorVars, geometryVars, conversionVars,
      utilityVars>>

----------------------------------------------------------------------------
(* Bounds *)

MaxAnnotations == 3       \* records given to _build_annotation_map
MaxCocoAnnotations == 2   \* annotations of each compared COCO collection
MaxConversionAnnotations == 2   \* annotations of a converted collection
MaxSelectedSamples == 2         \* samples given to _build_samples_payload

----------------------------------------------------------------------------
(* Python values *)

None == <<>>
Some(v) == <<v>>
IsNone(o) == o = <<>>
Value(o) == o[1]
OrEmpty(o) == IF IsNone(o) THEN <<>> ELSE Value(o)   \* "o or ()", "o or ''"

Min(a, b) == IF a < b THEN a ELSE b

\* LET x == v IN Body(x), with v evaluated once.
Bind(v, Body(_)) == CHOOSE r \in {Body(x) : x \in {v}} : TRUE

Ord ==
    [c \in {"-", ".", "/", "1", "2", "a", "b", "c", "d", "e", "g", "j", "k",
            "l", "m", "n", "o", "p", "r", "s", "t", "u", "w", "x", "y"} |->
        CASE c = "-" -> 45 [] c = "." -> 46 [] c = "/" -> 47
          [] c = "1" -> 49 [] c = "2" -> 50
          [] c = "a" -> 97 [] c = "b" -> 98 [] c = "c" -> 99 [] c = "d" -> 100
          [] c = "e" -> 101 [] c = "g" -> 103 [] c = "j" -> 106
          [] c = "k" -> 107 [] c = "l" -> 108 [] c = "m" -> 109
          [] c = "n" -> 110 [] c = "o" -> 111 [] c = "p" -> 112
          [] c = "r" -> 114 [] c = "s" -> 115 [] c = "t" -> 116
          [] c = "u" -> 117 [] c = "w" -> 119 [] c = "x" -> 120
          [] c = "y" -> 121]

\* Python's ordering of two sequences (tuple, list, str): the first index at
\* which they differ decides; a proper prefix is smaller.
LexLess(ElemLess(_, _), a, b) ==
    LET n == Min(Len(a), Len(b))
        diffs == {i \in 1..n : a[i] # b[i]}
    IN  IF diffs = {}
        THEN Len(a) < Len(b)
        ELSE LET i == CHOOSE k \in diffs : \A m \in diffs : k <= m
             IN  ElemLess(a[i], b[i])

CharLess(c, d) == Ord[c] < Ord[d]
IntLess(x, y) == x < y
StrLess(s, t) == LexLess(CharLess, s, t)
IntSeqLess(a, b) == LexLess(IntLess, a, b)
PolygonLess(p, q) == LexLess(IntSeqLess, p, q)
MaskLess(m, n) == LexLess(PolygonLess, m, n)

\* sorted(seq, key=...): stable; Less is the strict order of the keys.
StableSorted(Less(_, _), seq) ==
    LET n == Len(seq)
        pos(i) == 1 + Cardinality({j \in 1..n :
                        j # i /\ (Less(seq[j], seq[i])
                                  \/ (~Less(seq[i], seq[j]) /\ j < i))})
    IN  [p \in 1..n |-> seq[CHOOSE i \in 1..n : pos(i) = p]]

\* round(value, 6) of a value given in 1e-7 units, in 1e-6 units (half to even).
Round6(v) ==
    LET q == v \div 10
        r == v % 10
    IN  IF r < 5 THEN q
        ELSE IF r > 5 THEN q + 1
        ELSE IF q % 2 = 0 THEN q ELSE q + 1

\* PurePath(s).name: the last component, trailing separators dropped.
RECURSIVE PathName(_)
PathName(s) ==
    IF s = <<>> THEN <<>>
    ELSE IF s[Len(s)] = "/" THEN PathName(SubSeq(s, 1, Len(s) - 1))
    ELSE LET slashes == {i \in 1..Len(s) : s[i] = "/"}
             last == IF slashes = {} THEN 0
                     ELSE CHOOSE k \in slashes : \A m \in slashes : m <= k
         IN  IF last = 0 /\ s = <<".">> THEN <<>>
             ELSE SubSeq(s, last + 1, Len(s))

\* PurePath(s).stem: the name without its last suffix.
Stem(s) ==
    LET name == PathName(s)
        dots == {i \in 1..Len(name) : name[i] = "."}
        i == IF dots = {} THEN 0
             ELSE CHOOSE k \in dots : \A m \in dots : m <= k
    IN  IF 1 < i /\ i < Len(name) THEN SubSeq(name, 1, i - 1) ELSE name

----------------------------------------------------------------------------
(* Annotation Reconciler: test/test_datasets.py *)

\* DatasetTest._annotation_image_key: [raised, key]
AnnotationImageKey(annotation) ==
    IF IsNone(annotation.name)
    THEN [raised |-> TRUE, key |-> <<>>]
    ELSE [raised |-> FALSE, key |-> Stem(Value(annotation.name))]

\* DatasetTest._annotation_signature: the box and the mask, rounded
BboxSig(annotation) ==
    LET bbox == annotation.box2d
    IN  IF ~IsNone(bbox)
        THEN Some([k \in 1..4 |-> Round6(Value(bbox)[k])])
        ELSE None

MaskSig(annotation) ==
    LET mask == annotation.mask
    IN  IF ~IsNone(mask)
        THEN Some([p \in 1..Len(Value(mask)) |->
                   [q \in 1..Len(Value(mask)[p]) |->
                       <<Round6(Value(mask)[p][q][1]),
                         Round6(Value(mask)[p][q][2])>>]])
        ELSE None

AnnotationSignatureWithBox3d(annotation) ==
    <<annotation.label, annotation.object_id, annotation.group,
      BboxSig(annotation), MaskSig(annotation), annotation.box3d>>

\* DatasetTest._annotation_signature
AnnotationSignature(annotation) ==
    <<annotation.label, annotation.object_id, annotation.group,
      BboxSig(annotation), MaskSig(annotation)>>

Identity(entry) == SubSeq(entry, 1, 3)

UpdatedBboxOverwrite(existing, signature) ==
    IF ~IsNone(signature[4]) THEN signature[4] ELSE existing[4]

UpdatedBbox(existing, signature) ==
    IF ~IsNone(existing[4]) THEN existing[4] ELSE signature[4]

UpdatedMaskKeep(existing, signature) == existing[5]

UpdatedMask(existing, signature) ==
    IF ~IsNone(existing[5]) THEN existing[5] ELSE signature[5]

MergeChangesOnIdentity(existing, signature) ==
    Identity(existing) = Identity(signature)

\* The test of one loop iteration: the entry has the identity of the
\* signature and merging changes it.
MergeChanges(existing, signature) ==
    /\ Identity(existing) = Identity(signature)
    /\ \/ UpdatedBbox(existing, signature) # existing[4]
       \/ UpdatedMask(existing, signature) # existing[5]

\* DatasetTest._merge_annotation_signature: [merged, entries]
MergeAnnotationSignature(entries, signature) ==
    LET hits == {i \in 1..Len(entries) : MergeChanges(entries[i], signature)}
    IN  IF hits = {}
        THEN [merged |-> FALSE, entries |-> entries]
        ELSE LET idx == CHOOSE i \in hits : \A j \in hits : i <= j
                 existing == entries[idx]
             IN  [merged |-> TRUE,
                  entries |-> [entries EXCEPT ![idx] =
                                 <<existing[1], existing[2], existing[3],
                                   UpdatedBbox(existing, signature),
                                   UpdatedMask(existing, signature)>>]]

\* The sort key of _build_annotation_map and its ordering.
SortKey(item) ==
    <<OrEmpty(item[1]), OrEmpty(item[2]), OrEmpty(item[4]), OrEmpty(item[5])>>

SortKeyLess(x, y) ==
    LET a == SortKey(x)
        b == SortKey(y)
    IN  IF a[1] # b[1] THEN StrLess(a[1], b[1])
        ELSE IF a[2] # b[2] THEN StrLess(a[2], b[2])
        ELSE IF a[3] # b[3] THEN IntSeqLess(a[3], b[3])
        ELSE MaskLess(a[4], b[4])

SortEntries(values) == StableSorted(SortKeyLess, values)

\* "if not self._merge_annotation_signature(...): entries.append(signature)"
MergeOrAppend(entries, signature) ==
    LET m == MergeAnnotationSignature(entries, signature)
    IN  IF m.merged THEN m.entries ELSE Append(entries, signature)

\* One iteration of the first loop of _build_annotation_map on a dict g.
GroupAnnotation(g, annotation) ==
    LET key == AnnotationImageKey(annotation).key
        signature == AnnotationSignature(annotation)
        entries == IF key \in DOMAIN g THEN g[key] ELSE <<>>
        after == MergeOrAppend(entries, signature)
    IN  [k \in DOMAIN g \cup {key} |-> IF k = key THEN after ELSE g[k]]

\* The second loop of _build_annotation_map.
SortGrouped(g) == [k \in DOMAIN g |-> SortEntries(g[k])]

EmptyDict == [k \in {} |-> <<>>]

\* DatasetTest._build_annotation_map as a function: [raised, map]
RECURSIVE GroupAll(_, _)
GroupAll(g, anns) ==
    IF anns = <<>> THEN [raised |-> FALSE, map |-> g]
    ELSE IF AnnotationImageKey(Head(anns)).raised
         THEN [raised |-> TRUE, map |-> EmptyDict]
         ELSE GroupAll(GroupAnnotation(g, Head(anns)), Tail(anns))

BuildAnnotationMap(anns) ==
    LET r == GroupAll(EmptyDict, anns)
    IN  IF r.raised THEN r ELSE [raised |-> FALSE, map |-> SortGrouped(r.map)]

----------------------------------------------------------------------------
(* Round-Trip Comparator: test/test_coco_studio_roundtrip.py *)

Abs(x) == IF x < 0 THEN -x ELSE x

RECURSIVE Gcd(_, _)
Gcd(a, b) == IF b = 0 THEN a ELSE Gcd(b, a % b)

\* The quotient n / d (d # 0) as a fraction in lowest terms, denominator > 0.
Rat(n, d) ==
    LET g == Gcd(Abs(n), Abs(d))
        sgn == IF d < 0 THEN -1 ELSE 1
    IN  <<sgn * (n \div g), sgn * (d \div g)>>

RatLess(a, b) == a[1] * b[2] < b[1] * a[2]
RatSeqLess(a, b) == LexLess(RatLess, a, b)

\* abs(o - e) as a fraction
AbsDiff(o, e) == Rat(Abs(o[1] * e[2] - e[1] * o[2]), o[2] * e[2])

RECURSIVE Flatten(_)
Flatten(seqs) == IF seqs = <<>> THEN <<>> ELSE Head(seqs) \o Flatten(Tail(seqs))

\* {rec[key]: rec[value] for rec in recs}.get(k): the last record with the
\* key decides; None when there is none.
DictGet(recs, k, KeyOf_(_), ValueOf_(_)) ==
    LET hits == {i \in 1..Len(recs) : KeyOf_(recs[i]) = k}
    IN  IF hits = {} THEN None
        ELSE Some(ValueOf_(recs[CHOOSE i \in hits : \A j \in hits : j <= i]))

IdOf(rec) == rec.id
CatNameOf(cat) == cat.name
ImageStemOf(img) == Stem(img.file_name)
ImageDimsOf(img) == <<img.width, img.height>>

\* set(cat_names.values())
CategoryNameSet(dataset) ==
    {Value(DictGet(dataset.categories, c.id, IdOf, CatNameOf)) :
        c \in {dataset.categories[i] : i \in 1..Len(dataset.categories)}}

Str_unknown == <<"u", "n", "k", "n", "o", "w", "n">>

\* An annotation that group_by_image keeps: its image id is known and the
\* image's stem is not empty ("if img_name:").
Grouped(dataset, ann) ==
    LET img_name == DictGet(dataset.images, ann.image_id, IdOf, ImageStemOf)
    IN  ~IsNone(img_name) /\ Value(img_name) # <<>>

\* group_by_image with cat_names[ann["category_id"]] in place of
\* cat_names.get(..., "unknown"): raises KeyError on an unknown category.
GroupedEntryStrict(dataset, ann) ==
    LET img_name == Value(DictGet(dataset.images, ann.image_id, IdOf, ImageStemOf))
        dims == Value(DictGet(dataset.images, ann.image_id, IdOf, ImageDimsOf))
        bbox == IF IsNone(ann.bbox) THEN <<0, 0, 0, 0>> ELSE Value(ann.bbox)
        cat == DictGet(dataset.categories, ann.category_id, IdOf, CatNameOf)
    IN  IF dims[1] = 0 \/ dims[2] = 0 \/ IsNone(cat)
        THEN [raised |-> TRUE, img_name |-> img_name, label |-> Str_unknown,
              bbox |-> <<>>]
        ELSE [raised |-> FALSE, img_name |-> img_name, label |-> Value(cat),
              bbox |-> <<Rat(bbox[1], dims[1]), Rat(bbox[2], dims[2]),
                         Rat(bbox[3], dims[1]), Rat(bbox[4], dims[2])>>]

\* The entry group_by_image appends for a kept annotation.
\* [raised (ZeroDivisionError), img_name, label, bbox]
GroupedEntry(dataset, ann) ==
    LET img_name == Value(DictGet(dataset.images, ann.image_id, IdOf, ImageStemOf))
        dims == Value(DictGet(dataset.images, ann.image_id, IdOf, ImageDimsOf))
        bbox == IF IsNone(ann.bbox) THEN <<0, 0, 0, 0>> ELSE Value(ann.bbox)
        cat == DictGet(dataset.categories, ann.category_id, IdOf, CatNameOf)
        label == IF IsNone(cat) THEN Str_unknown ELSE Value(cat)
    IN  IF dims[1] = 0 \/ dims[2] = 0
        THEN [raised |-> TRUE, img_name |-> img_name, label |-> label,
              bbox |-> <<>>]
        ELSE [raised |-> FALSE, img_name |-> img_name, label |-> label,
              bbox |-> <<Rat(bbox[1], dims[1]), Rat(bbox[2], dims[2]),
                         Rat(bbox[3], dims[1]), Rat(bbox[4], dims[2])>>]

\* The dict group_by_image builds from the entries it appends:
\* [raised, keys (in insertion order), anns (per key)]
GroupEntries(entries) ==
    LET first(i) == \A j \in 1..(i - 1) : entries[j].img_name # entries[i].img_name
        firsts == SelectSeq([i \in 1..Len(entries) |-> i], first)
        strip(e) == [label |-> e.label, bbox |-> e.bbox]
        of(k) == SelectSeq(entries, LAMBDA e : e.img_name = k)
    IN  [raised |-> \E i \in 1..Len(entries) : entries[i].raised,
         keys |-> [n \in 1..Len(firsts) |-> entries[firsts[n]].img_name],
         anns |-> [k \in {entries[i].img_name : i \in 1..Len(entries)} |->
                     [n \in 1..Len(of(k)) |-> strip(of(k)[n])]]]

\* group_by_image
GroupByImage(dataset) ==
    LET kept == SelectSeq(OrEmpty(dataset.annotations),
                          LAMBDA a : Grouped(dataset, a))
    IN  Bind([i \in 1..Len(kept) |-> GroupedEntry(dataset, kept[i])],
             GroupEntries)

\* The key (label, tuple(bbox)) of the two sorts.
AnnLess(x, y) ==
    IF x.label # y.label THEN StrLess(x.label, y.label)
    ELSE RatSeqLess(x.bbox, y.bbox)

SortAnns(anns) == StableSorted(AnnLess, anns)

----------------------------------------------------------------------------
(* Double-precision arithmetic of "abs(o - e) > tolerance".  A double in   *)
(* [0, 2^IntegerBits) is the sequence of its binary digits, IntegerBits    *)
(* before the point and FractionBits after it; every double used here is 0 *)
(* or large enough for its 53 significant digits to lie in the sequence.   *)

SignificandBits == 53
IntegerBits == 30
LimbBits == 15
FractionLimbs == 7
FractionBits == FractionLimbs * LimbBits

RECURSIVE Pow2(_)
Pow2(k) == IF k = 0 THEN 1 ELSE 2 * Pow2(k - 1)

\* k base-2^LimbBits digits of r / d (0 <= r < d < 2^LimbBits) after the
\* point, then the remainder.
RECURSIVE ExpandFraction(_, _, _)
ExpandFraction(r, d, k) ==
    IF k = 0 THEN <<r>>
    ELSE <<(r * Pow2(LimbBits)) \div d>>
            \o Bind((r * Pow2(LimbBits)) % d,
                    LAMBDA r2 : ExpandFraction(r2, d, k - 1))

\* The k binary digits of q (0 <= q < 2^k).
RECURSIVE IntegerDigits(_, _)
IntegerDigits(q, k) ==
    IF k = 0 THEN <<>> ELSE IntegerDigits(q \div 2, k - 1) \o <<q % 2>>

\* bits with 1 added at position pos (all digits after pos are 0).
AddUlp(bits, pos) ==
    LET zeros == {i \in 1..pos : bits[i] = 0}
        z == CHOOSE i \in zeros : \A j \in zeros : j <= i
    IN  [i \in 1..Len(bits) |->
            IF i < z THEN bits[i] ELSE IF i = z THEN 1 ELSE 0]

\* Round to nearest, ties to even, at SignificandBits significant digits;
\* sticky: the exact value has further nonzero digits beyond the sequence.
RoundToDouble(bits, sticky) ==
    LET ones == {i \in 1..Len(bits) : bits[i] = 1}
        lead == CHOOSE i \in ones : \A j \in ones : i <= j
        last == lead + SignificandBits - 1
        rest == sticky \/ \E i \in (last + 2)..Len(bits) : bits[i] = 1
        kept == [i \in 1..Len(bits) |-> IF i <= last THEN bits[i] ELSE 0]
    IN  IF ones = {} \/ last >= Len(bits) THEN bits
        ELSE IF bits[last + 1] = 1 /\ (rest \/ bits[last] = 1)
             THEN AddUlp(kept, last)
             ELSE kept

\* The double n / d of two ints (n >= 0, d > 0): a fraction <<n, d>>.
Double(x) ==
    Bind(ExpandFraction(x[1] % x[2], x[2], FractionLimbs),
         LAMBDA f :
            RoundToDouble(
                IntegerDigits(x[1] \div x[2], IntegerBits)
                    \o Flatten([k \in 1..FractionLimbs |->
                                    IntegerDigits(f[k], LimbBits)]),
                f[FractionLimbs + 1] # 0))

BitsLess(a, b) == LexLess(IntLess, a, b)

\* The digits of a - b (a >= b), exactly: position i borrows when the
\* digits after it are less in a than in b.
SubtractBits(a, b) ==
    Bind({j \in 1..Len(a) : a[j] # b[j]},
         LAMBDA differ :
            [i \in 1..Len(a) |->
                LET after == {j \in differ : j > i}
                    next == CHOOSE j \in after : \A k \in after : j <= k
                    borrow == IF after # {} /\ a[next] < b[next]
                              THEN 1 ELSE 0
                IN  (a[i] - b[i] - borrow) % 2])

\* abs(a - b) of two doubles
DoubleAbsDiff(a, b) ==
    RoundToDouble(IF BitsLess(a, b)
                  THEN SubtractBits(b, a)
                  ELSE SubtractBits(a, b),
                  FALSE)

\* The number whose binary digits are bits (fewer than 31 of them).
RECURSIVE BitsValue(_)
BitsValue(bits) ==
    IF bits = <<>> THEN 0
    ELSE 2 * BitsValue(SubSeq(bits, 1, Len(bits) - 1)) + bits[Len(bits)]

\* The base-2^LimbBits digits of a digit sequence (its length a multiple of
\* LimbBits).
ToLimbs(bits) ==
    [k \in 1..(Len(bits) \div LimbBits) |->
        BitsValue(SubSeq(bits, LimbBits * (k - 1) + 1, LimbBits * k))]

\* The limbs 1..i of limbs * n + carry (0 <= n < 2^LimbBits), exactly; the
\* product is less than 2^IntegerBits.
RECURSIVE MultiplyLimbs(_, _, _, _)
MultiplyLimbs(limbs, n, i, carry) ==
    IF i = 0 THEN <<>>
    ELSE Bind((limbs[i] * n + carry) \div Pow2(LimbBits),
              LAMBDA c : MultiplyLimbs(limbs, n, i - 1, c))
            \o <<(limbs[i] * n + carry) % Pow2(LimbBits)>>

\* The digits of bits * n (0 <= n < 2^LimbBits), exactly.
ExactTimes(bits, n) ==
    Bind(ToLimbs(bits),
         LAMBDA limbs :
            Bind(MultiplyLimbs(limbs, n, Len(limbs), 0),
                 LAMBDA product :
                    Flatten([k \in 1..Len(product) |->
                                IntegerDigits(product[k], LimbBits)])))

\* a * n of a double a and an int n (0 <= n < 2^LimbBits)
DoubleTimes(a, n) == RoundToDouble(ExactTimes(a, n), FALSE)

\* The limbs of (rem * 2^(LimbBits * Len(limbs)) + limbs) \div n, then the
\* remainder (0 <= rem < n < 2^LimbBits).
RECURSIVE DivideLimbs(_, _, _)
DivideLimbs(limbs, n, rem) ==
    IF limbs = <<>> THEN <<rem>>
    ELSE <<(rem * Pow2(LimbBits) + Head(limbs)) \div n>>
            \o Bind((rem * Pow2(LimbBits) + Head(limbs)) % n,
                    LAMBDA r : DivideLimbs(Tail(limbs), n, r))

\* a / n of a double a and an int n (0 < n < 2^LimbBits)
DoubleOver(a, n) ==
    Bind(DivideLimbs(ToLimbs(a) \o <<0, 0>>, n, 0),
         LAMBDA quotient :
            SubSeq(RoundToDouble(
                       Flatten([k \in 1..(Len(quotient) - 1) |->
                                   IntegerDigits(quotient[k], LimbBits)]),
                       quotient[Len(quotient)] # 0),
                   1, Len(a)))

\* A double with its sign: n / d of two ints (d # 0), a * n and a / n.
SignedDouble(n, d) ==
    [neg |-> (n < 0) # (d < 0), mag |-> Double(<<Abs(n), Abs(d)>>)]
SignedTimes(a, n) ==
    [neg |-> a.neg # (n < 0), mag |-> DoubleTimes(a.mag, Abs(n))]
SignedOver(a, n) ==
    [neg |-> a.neg # (n < 0), mag |-> DoubleOver(a.mag, Abs(n))]

\* "abs(o - e) > tolerance" in doubles
DoubleExceeds(o, e, tol) ==
    BitsLess(Double(tol), DoubleAbsDiff(Double(o), Double(e)))

\* "abs(o - e) > tolerance" of the normalized coordinates o and e, given as
\* fractions.  Fractions with denominators below 2^15 that differ, differ
\* by far more than the rounding errors of the doubles, so the exact
\* difference decides unless it equals the tolerance.
ExceedsTolerance(o, e, tol) ==
    IF AbsDiff(o, e) # tol
    THEN RatLess(tol, AbsDiff(o, e))
    ELSE DoubleExceeds(o, e, tol)

ImageKeySet(dataset) ==
    {Stem(dataset.images[i].file_name) : i \in 1..Len(dataset.images)}

ImagesDifferByKeySet(orig, exp) == ImageKeySet(orig) # ImageKeySet(exp)

\* "len(original['images']) != len(exported['images'])"
ImagesDiffer(orig, exp) == Len(orig.images) # Len(exp.images)

\* The differences one pair of compared annotations adds; i is 0-based.
PairDifferences(img_name, i, orig, exp, tol) ==
    LET label == IF orig.label # exp.label
                 THEN << <<"label", img_name, i, 0>> >> ELSE <<>>
        n == Min(Len(orig.bbox), Len(exp.bbox))
        bbox == Flatten([j \in 1..n |->
                    IF ExceedsTolerance(orig.bbox[j], exp.bbox[j], tol)
                    THEN << <<"bbox", img_name, i, j - 1>> >> ELSE <<>>])
    IN  label \o bbox

\* The differences the element-wise comparison of two sorted lists adds.
SortedDifferences(img_name, orig_sorted, export_sorted, tol) ==
    Flatten([i \in 1..Len(orig_sorted) |->
        PairDifferences(img_name, i - 1, orig_sorted[i], export_sorted[i], tol)])

\* The differences one image name of the original adds.
ImageDifferences(img_name, grouped_orig, grouped_export, tol) ==
    LET orig_anns == grouped_orig.anns[img_name]
        export_anns == IF img_name \in DOMAIN grouped_export.anns
                       THEN grouped_export.anns[img_name] ELSE <<>>
    IN  IF Len(orig_anns) # Len(export_anns)
        THEN << <<"count", img_name, Len(orig_anns), Len(export_anns)>> >>
        ELSE Bind(<<SortAnns(orig_anns), SortAnns(export_anns)>>,
                  LAMBDA s : SortedDifferences(img_name, s[1], s[2], tol))

\* The differences of the loop over the image names of the original.
AnnotationDifferences(grouped_orig, grouped_export, tol) ==
    Flatten([n \in 1..Len(grouped_orig.keys) |->
        ImageDifferences(grouped_orig.keys[n], grouped_orig,
                         grouped_export, tol)])

Raised ==
    [raised |-> TRUE, images_match |-> FALSE, annotations_match |-> FALSE,
     categories_match |-> FALSE, differences |-> <<>>]

\* The report with categories_match cleared and no difference appended.
ReportUnrecorded(orig, exp, ann_differences) ==
    [raised |-> FALSE,
     images_match |-> ~ImagesDiffer(orig, exp),
     annotations_match |-> ann_differences = <<>>,
     categories_match |-> CategoryNameSet(orig) = CategoryNameSet(exp),
     differences |->
         (IF ImagesDiffer(orig, exp)
          THEN << <<"image_count", <<>>, Len(orig.images),
                    Len(exp.images)>> >> ELSE <<>>)
         \o ann_differences]

\* The report, given the two grouped dicts and the differences of the loop.
Report(orig, exp, ann_differences) ==
    LET images_differ == ImagesDiffer(orig, exp)
        categories_differ == CategoryNameSet(orig) # CategoryNameSet(exp)
    IN  [raised |-> FALSE,
         images_match |-> ~images_differ,
         annotations_match |-> ann_differences = <<>>,
         categories_match |-> ~categories_differ,
         differences |->
             (IF images_differ
              THEN << <<"image_count", <<>>, Len(orig.images),
                        Len(exp.images)>> >> ELSE <<>>)
             \o (IF categories_differ
                 THEN << <<"categories", <<>>, 0, 0>> >> ELSE <<>>)
             \o ann_differences]

\* TestCocoStudioRoundtrip._compare_coco_annotations, after the two calls
\* of group_by_image
CompareGrouped(orig, exp, tol, grouped_orig, grouped_export) ==
    IF grouped_orig.raised \/ grouped_export.raised THEN Raised
    ELSE Bind(AnnotationDifferences(grouped_orig, grouped_export, tol),
              LAMBDA d : Report(orig, exp, d))

----------------------------------------------------------------------------
(* Geometry Transform: test/test_coco_studio_roundtrip.py.  A coordinate   *)
(* is a record of the real number the expression denotes (q, a fraction)   *)
(* and the double the code computes for it (d).                            *)

\* a * n of a fraction a and an int n, in lowest terms
RatTimes(a, n) ==
    LET g == Gcd(a[2], Abs(n))
    IN  IF n = 0 THEN <<0, 1>> ELSE <<a[1] * (n \div g), a[2] \div g>>

\* a / n of a fraction a and an int n # 0, in lowest terms
RatOver(a, n) ==
    LET g == Gcd(Abs(a[1]), Abs(n))
        sgn == IF n < 0 THEN -1 ELSE 1
    IN  <<sgn * (a[1] \div g), a[2] * (Abs(n) \div g)>>

\* The coordinate n / d: the fraction and the double nearest to it.
Coordinate(n, d) == [q |-> Rat(n, d), d |-> SignedDouble(n, d)]
Pixels(box) == [c \in 1..Len(box) |-> Coordinate(box[c], 1)]

\* "x / width" and "x * width" of a coordinate and an int
Quotient(x, width) ==
    [q |-> RatOver(x.q, width), d |-> SignedOver(x.d, width)]
Product(x, width) ==
    [q |-> RatTimes(x.q, width), d |-> SignedTimes(x.d, width)]

NoError == ""
ZeroDivisionError == "ZeroDivisionError"
IndexError == "IndexError"

\* coco_bbox_to_normalized with the result clamped to [0, 1]
CocoBboxToNormalizedClamped(bbox, width, height) ==
    LET clamp(x, w) == IF x.q[1] < 0 THEN Coordinate(0, 1)
                       ELSE IF RatLess(<<w, 1>>, x.q) THEN Coordinate(1, 1)
                       ELSE Quotient(x, w)
    IN  IF width = 0 \/ height = 0
        THEN [error |-> ZeroDivisionError, bbox |-> <<>>]
        ELSE [error |-> NoError,
              bbox |-> <<clamp(bbox[1], width), clamp(bbox[2], height),
                         clamp(bbox[3], width), clamp(bbox[4], height)>>]

\* coco_bbox_to_normalized: [error, bbox]
CocoBboxToNormalized(bbox, width, height) ==
    IF width = 0 \/ height = 0
    THEN [error |-> ZeroDivisionError, bbox |-> <<>>]
    ELSE [error |-> NoError,
          bbox |-> <<Quotient(bbox[1], width), Quotient(bbox[2], height),
                     Quotient(bbox[3], width), Quotient(bbox[4], height)>>]

\* normalized_bbox_to_coco
NormalizedBboxToCoco(bbox, width, height) ==
    <<Product(bbox[1], width), Product(bbox[2], height),
      Product(bbox[3], width), Product(bbox[4], height)>>

\* coco_polygon_to_normalized: [error, polygon]; the points are pairs.
\* "polygon[i] / width" is evaluated before "polygon[i + 1] / height".
CocoPolygonToNormalized(polygon, width, height) ==
    LET n == Len(polygon)
        failed(e) == [error |-> e, polygon |-> <<>>]
    IN  IF n = 0 THEN [error |-> NoError, polygon |-> <<>>]
        ELSE IF width = 0 THEN failed(ZeroDivisionError)
        ELSE IF n = 1 THEN failed(IndexError)
        ELSE IF height = 0 THEN failed(ZeroDivisionError)
        ELSE IF n % 2 = 1 THEN failed(IndexError)
        ELSE [error |-> NoError,
              polygon |-> [k \in 1..(n \div 2) |->
                              <<Quotient(polygon[2 * k - 1], width),
                                Quotient(polygon[2 * k], height)>>]]

\* normalized_polygon_to_coco
NormalizedPolygonToCoco(polygon, width, height) ==
    Flatten([k \in 1..Len(polygon) |->
                <<Product(polygon[k][1], width),
                  Product(polygon[k][2], height)>>])

----------------------------------------------------------------------------
(* Conversions: coco_to_samples and samples_to_coco of                     *)
(* test/test_coco_studio_roundtrip.py.  Sample, Annotation and Mask hold   *)
(* what their setters are given; a Sample built here has no width and no   *)
(* height.                                                                 *)

Str_coco == <<"c", "o", "c", "o", "-">>
Str_image == <<"i", "m", "a", "g", "e", "_">>
Str_jpg == <<".", "j", "p", "g">>

\* str(n) of an int n >= 0
RECURSIVE DecimalString(_)
DecimalString(n) ==
    LET digit == <<"0", "1", "2", "3", "4", "5", "6", "7", "8", "9">>
    IN  IF n < 10 THEN <<digit[n + 1]>>
        ELSE DecimalString(n \div 10) \o <<digit[(n % 10) + 1]>>

\* The first error of a sequence of errors, NoError when there is none.
FirstError(errors) ==
    LET bad == {i \in 1..Len(errors) : errors[i] # NoError}
    IN  IF bad = {} THEN NoError
        ELSE errors[CHOOSE i \in bad : \A j \in bad : i <= j]

\* "len(poly) >= 6" without the test: every polygon is kept
HasAnyPoints(poly) == TRUE

\* "len(poly) >= 6": the flat polygons that both conversions keep.
HasMinimumPoints(poly) == Len(poly) >= 6

\* The Annotation coco_to_samples builds for one COCO annotation of an
\* image: [error, annotation]
SampleAnnotation(coco_data, ann, width, height) ==
    LET cat == DictGet(coco_data.categories, ann.category_id, IdOf, CatNameOf)
        box == CocoBboxToNormalized(ann.bbox, width, height)
        kept == SelectSeq(OrEmpty(ann.segmentation), HasMinimumPoints)
        polygons == [k \in 1..Len(kept) |->
                        CocoPolygonToNormalized(kept[k], width, height)]
    IN  [error |-> FirstError(<<box.error>>
                       \o [k \in 1..Len(kept) |-> polygons[k].error]),
         annotation |->
            [label |-> IF IsNone(cat) THEN Some(Str_unknown) ELSE cat,
             object_id |-> Some(Str_coco \o DecimalString(ann.id)),
             box2d |-> Some(box.bbox),
             mask |-> IF kept = <<>> THEN None
                      ELSE Some([k \in 1..Len(kept) |-> polygons[k].polygon])]]

\* coco_to_samples(coco_data, group) without temp_dir: [error, samples]
CocoToSamples(coco_data, group) ==
    LET of(image) ==
            LET anns == SelectSeq(coco_data.annotations,
                                  LAMBDA a : a.image_id = image.id)
            IN  [k \in 1..Len(anns) |->
                    SampleAnnotation(coco_data, anns[k],
                                     image.width, image.height)]
        per_image == [i \in 1..Len(coco_data.images) |->
                         of(coco_data.images[i])]
    IN  [error |-> FirstError(Flatten(
                       [i \in 1..Len(per_image) |->
                           [k \in 1..Len(per_image[i]) |->
                               per_image[i][k].error]])),
         samples |->
            [i \in 1..Len(per_image) |->
                [name |-> Some(Stem(coco_data.images[i].file_name)),
                 group |-> IF OrEmpty(group) = <<>> THEN None ELSE group,
                 width |-> None,
                 height |-> None,
                 annotations |-> [k \in 1..Len(per_image[i]) |->
                                     per_image[i][k].annotation]]]]

\* "value or default" of an int that may be None
OrDefault(value, default) ==
    IF IsNone(value) \/ Value(value) = 0 THEN default ELSE Value(value)

\* "ann.label or 'unknown'"
LabelOrUnknown(ann) ==
    IF OrEmpty(ann.label) = <<>> THEN Str_unknown ELSE Value(ann.label)

\* "if label not in categories: ..." with every label given a new entry
ResolveAlwaysCreate(categories, label) ==
    Append(categories, [id |-> Len(categories) + 1, name |-> label,
                        supercategory |-> <<>>])

\* "if label not in categories: ...": the dict categories as the sequence
\* of its values in insertion order.
ResolveOrCreate(categories, label) ==
    IF \E k \in 1..Len(categories) : categories[k].name = label
    THEN categories
    ELSE Append(categories, [id |-> Len(categories) + 1, name |-> label,
                             supercategory |-> <<>>])

\* categories[label]["id"]
CategoryId(categories, label) ==
    LET k == CHOOSE k \in 1..Len(categories) : categories[k].name = label
    IN  categories[k].id

\* The dict categories after the labels have been resolved in order.
RECURSIVE ResolveAll(_, _)
ResolveAll(categories, labels) ==
    IF labels = <<>> THEN categories
    ELSE ResolveAll(ResolveOrCreate(categories, Head(labels)), Tail(labels))

\* The annotations of all samples in loop order: [img_id, sample, ann]
SampleAnnotations(samples) ==
    Flatten([i \in 1..Len(samples) |->
                [k \in 1..Len(samples[i].annotations) |->
                    [img_id |-> i, sample |-> samples[i],
                     ann |-> samples[i].annotations[k]]]])

\* The "segmentation" of an annotation, None when the key is not set.
Segmentation(ann, width, height, include_masks) ==
    IF ~include_masks \/ IsNone(ann.mask) THEN None
    ELSE LET coco_polys == [k \in 1..Len(Value(ann.mask)) |->
                              NormalizedPolygonToCoco(Value(ann.mask)[k],
                                                      width, height)]
             polygons == SelectSeq(coco_polys, HasMinimumPoints)
         IN  IF polygons = <<>> THEN None ELSE Some(polygons)

\* The COCO annotation samples_to_coco appends; the area is the product of
\* the fractions (its double is left out).
CocoAnnotation(annotation_id, entry, categories, include_masks) ==
    LET width == OrDefault(entry.sample.width, 640)
        height == OrDefault(entry.sample.height, 480)
        bbox == IF IsNone(entry.ann.box2d)
                THEN Pixels(<<0, 0, 0, 0>>)
                ELSE NormalizedBboxToCoco(Value(entry.ann.box2d),
                                          width, height)
    IN  [id |-> annotation_id,
         image_id |-> entry.img_id,
         category_id |-> CategoryId(categories, LabelOrUnknown(entry.ann)),
         iscrowd |-> 0,
         bbox |-> bbox,
         area |-> Rat(bbox[3].q[1] * bbox[4].q[1],
                      bbox[3].q[2] * bbox[4].q[2]),
         segmentation |-> Segmentation(entry.ann, width, height,
                                       include_masks)]

\* samples_to_coco(samples, include_masks)
SamplesToCoco(samples, include_masks) ==
    LET entries == SampleAnnotations(samples)
        labels == [n \in 1..Len(entries) |-> LabelOrUnknown(entries[n].ann)]
        table(n) == ResolveAll(<<>>, SubSeq(labels, 1, n))
    IN  [images |->
            [i \in 1..Len(samples) |->
                [id |-> i,
                 width |-> OrDefault(samples[i].width, 640),
                 height |-> OrDefault(samples[i].height, 480),
                 file_name |->
                    (IF OrEmpty(samples[i].name) = <<>>
                     THEN Str_image \o DecimalString(i)
                     ELSE Value(samples[i].name)) \o Str_jpg]],
         annotations |->
            [n \in 1..Len(entries) |->
                CocoAnnotation(n, entries[n], table(n), include_masks)],
         categories |-> table(Len(entries))]

----------------------------------------------------------------------------
(* Sequence identifiers: generate_sequence_uuid of test/test_advanced.py,  *)
(* and the Samples built for upload by test_sequence_upload_and_           *)
(* verification and by DatasetTest._build_samples_payload.                 *)

\* str.encode(): the UTF-8 bytes of a str of ASCII characters
Utf8Encode(str) == [i \in 1..Len(str) |-> Ord[str[i]]]

\* SHA-1 (hashlib.sha1) of a message of at most 55 bytes. A word is its 32
\* binary digits, most significant first.
WordBits == 32
HalfBits == 16
ByteBits == 8
HalfDigits(half) ==
    IntegerDigits(half \div Pow2(ByteBits), ByteBits)
        \o IntegerDigits(half % Pow2(ByteBits), ByteBits)
HalfValue(w, from) ==
    Pow2(ByteBits) * BitsValue(SubSeq(w, from + 1, from + ByteBits))
        + BitsValue(SubSeq(w, from + ByteBits + 1, from + HalfBits))
Word(hi, lo) == HalfDigits(hi) \o HalfDigits(lo)
HighHalf(w) == HalfValue(w, 0)
LowHalf(w) == HalfValue(w, HalfBits)

RotateLeft(w, n) == SubSeq(w, n + 1, WordBits) \o SubSeq(w, 1, n)
WordXor(a, b) == SubSeq([i \in 1..WordBits |-> (a[i] + b[i]) % 2], 1, WordBits)
Choice(b, c, d) ==
    SubSeq([i \in 1..WordBits |-> IF b[i] = 1 THEN c[i] ELSE d[i]], 1, WordBits)
Majority(b, c, d) ==
    SubSeq([i \in 1..WordBits |-> IF b[i] + c[i] + d[i] >= 2 THEN 1 ELSE 0],
           1, WordBits)

RECURSIVE SumLow(_)
SumLow(words) ==
    IF words = <<>> THEN 0 ELSE LowHalf(Head(words)) + SumLow(Tail(words))
RECURSIVE SumHigh(_)
SumHigh(words) ==
    IF words = <<>> THEN 0 ELSE HighHalf(Head(words)) + SumHigh(Tail(words))

\* The sum of at most 5 words modulo 2^32
WordSum(words) ==
    Bind(SumLow(words),
         LAMBDA lo :
            Word((SumHigh(words) + lo \div Pow2(HalfBits)) % Pow2(HalfBits),
                 lo % Pow2(HalfBits)))

Sha1Initial == <<Word(26437, 8961), Word(61389, 43913), Word(39098, 56574),
                 Word(4146, 21622), Word(50130, 57840)>>

Sha1Constant(t) ==
    IF t <= 20 THEN Word(23170, 31129)
    ELSE IF t <= 40 THEN Word(28377, 60321)
    ELSE IF t <= 60 THEN Word(36635, 48348)
    ELSE Word(51810, 49622)

Sha1Function(t, b, c, d) ==
    IF t <= 20 THEN Choice(b, c, d)
    ELSE IF t <= 40 THEN WordXor(WordXor(b, c), d)
    ELSE IF t <= 60 THEN Majority(b, c, d)
    ELSE WordXor(WordXor(b, c), d)

\* The message, the byte 0x80, zeros, and the length in bits as 8 bytes: one
\* block of 64 bytes.
Sha1Padded(message) ==
    message \o <<128>> \o [i \in 1..(55 - Len(message)) |-> 0]
        \o <<0, 0, 0, 0, 0, 0, (8 * Len(message)) \div 256,
             (8 * Len(message)) % 256>>

Sha1Block(message) ==
    Bind(Sha1Padded(message),
         LAMBDA block :
            [k \in 1..16 |->
                IntegerDigits(block[4 * k - 3], ByteBits)
                    \o IntegerDigits(block[4 * k - 2], ByteBits)
                    \o IntegerDigits(block[4 * k - 1], ByteBits)
                    \o IntegerDigits(block[4 * k], ByteBits)])

\* Word t of the message schedule, given the words before it.
Sha1Schedule(w, t) ==
    RotateLeft(WordXor(WordXor(w[t - 3], w[t - 8]),
                       WordXor(w[t - 14], w[t - 16])), 1)

\* Round t on the state [h, w]: the five working words and the schedule.
Sha1Round(s, t) ==
    Bind(IF t <= 16 THEN s.w ELSE Append(s.w, Sha1Schedule(s.w, t)),
         LAMBDA w :
            Bind(WordSum(<<RotateLeft(s.h[1], 5),
                           Sha1Function(t, s.h[2], s.h[3], s.h[4]),
                           s.h[5], Sha1Constant(t), w[t]>>),
                 LAMBDA temp :
                    [h |-> <<temp, s.h[1], RotateLeft(s.h[2], 30), s.h[3],
                             s.h[4]>>,
                     w |-> w]))

\* Rounds t .. t + 4
Sha1Rounds5(s, t) ==
    Bind(Sha1Round(s, t),
     LAMBDA s1 :
      Bind(Sha1Round(s1, t + 1),
       LAMBDA s2 :
        Bind(Sha1Round(s2, t + 2),
         LAMBDA s3 :
          Bind(Sha1Round(s3, t + 3),
           LAMBDA s4 : Sha1Round(s4, t + 4)))))

\* Rounds t .. t + 19
Sha1Rounds20(s, t) ==
    Bind(Sha1Rounds5(s, t),
     LAMBDA s1 :
      Bind(Sha1Rounds5(s1, t + 5),
       LAMBDA s2 :
        Bind(Sha1Rounds5(s2, t + 10),
         LAMBDA s3 : Sha1Rounds5(s3, t + 15))))

WordBytes(w) ==
    [k \in 1..4 |->
        BitsValue(SubSeq(w, ByteBits * (k - 1) + 1, ByteBits * k))]

\* hashlib.sha1(message).digest(): 20 bytes
Sha1Digest(message) ==
    Bind(Sha1Block(message),
     LAMBDA block :
      Bind(Sha1Rounds20([h |-> Sha1Initial, w |-> block], 1),
       LAMBDA s1 :
        Bind(Sha1Rounds20(s1, 21),
         LAMBDA s2 :
          Bind(Sha1Rounds20(s2, 41),
           LAMBDA s3 :
            Bind(Sha1Rounds20(s3, 61),
             LAMBDA s4 :
                Flatten([i \in 1..5 |->
                    WordBytes(WordSum(<<Sha1Initial[i], s4.h[i]>>))]))))))

\* f"{dataset_id_str}{sequence_name}": the two strings with nothing between
InputStringUnseparated(dataset_id_str, sequence_name) ==
    dataset_id_str \o sequence_name

\* f"{dataset_id_str}/{sequence_name}"
InputString(dataset_id_str, sequence_name) ==
    dataset_id_str \o <<"/">> \o sequence_name

\* 0x50 whatever the byte was
VersionByteOverwritten(byte) == 80

\* (byte & 0x0f) | 0x50
VersionByte(byte) == (byte % 16) + 80

\* (byte & 0x3f) | 0x80
VariantByte(byte) == (byte % 64) + 128

HexDigits == <<"0", "1", "2", "3", "4", "5", "6", "7", "8", "9",
               "a", "b", "c", "d", "e", "f">>
Hex(bytes) ==
    Flatten([k \in 1..Len(bytes) |->
                <<HexDigits[(bytes[k] \div 16) + 1],
                  HexDigits[(bytes[k] % 16) + 1]>>])

\* str(uuid.UUID(bytes=bytes)): 8-4-4-4-12 hexadecimal digits
UuidString(bytes) ==
    Hex(SubSeq(bytes, 1, 4)) \o <<"-">> \o Hex(SubSeq(bytes, 5, 6))
        \o <<"-">> \o Hex(SubSeq(bytes, 7, 8)) \o <<"-">>
        \o Hex(SubSeq(bytes, 9, 10)) \o <<"-">> \o Hex(SubSeq(bytes, 11, 16))

\* generate_sequence_uuid(dataset_id_str, sequence_name); bytes_array[6] and
\* bytes_array[8] are the 7th and the 9th byte.
GenerateSequenceUuid(dataset_id_str, sequence_name) ==
    Bind(Sha1Digest(Utf8Encode(InputString(dataset_id_str, sequence_name))),
         LAMBDA hash_bytes :
            LET uuid_bytes == SubSeq(hash_bytes, 1, 16)
                bytes_array == [uuid_bytes EXCEPT ![7] = VersionByte(@),
                                                  ![9] = VariantByte(@)]
            IN  UuidString(bytes_array))

\* Sample(): nothing set
NewSample ==
    [image_name |-> None, group |-> None, sequence_name |-> None,
     sequence_uuid |-> None, frame_number |-> None, files |-> <<>>,
     annotations |-> <<>>]

SampleFile(file_type, filename) ==
    [file_type |-> file_type, filename |-> filename]

\* The Sample of frame i that test_sequence_upload_and_verification builds
\* for a sequence.
SequenceSample(seq_name, seq_uuid, i, img_path) ==
    [NewSample EXCEPT !.sequence_name = Some(seq_name),
                      !.sequence_uuid = Some(seq_uuid),
                      !.frame_number = Some(i),
                      !.files = <<SampleFile("image", img_path)>>]

\* The Sample it builds for an image outside every sequence.
NonSequenceSample(img_path) ==
    [NewSample EXCEPT !.files = <<SampleFile("image", img_path)>>]

\* PurePath(s).suffix: the last suffix of the name, "" when it has none.
Suffix(s) ==
    LET name == PathName(s)
        dots == {i \in 1..Len(name) : name[i] = "."}
        i == IF dots = {} THEN 0
             ELSE CHOOSE k \in dots : \A m \in dots : m <= k
    IN  IF 1 < i /\ i < Len(name) THEN SubSeq(name, i, Len(name)) ELSE <<>>

\* DatasetTest._sample_image_key: [raised, key]
SampleImageKey(sample) ==
    IF ~IsNone(sample.image_name)
    THEN [raised |-> FALSE, key |-> Stem(Value(sample.image_name))]
    ELSE IF IsNone(sample.name)
         THEN [raised |-> TRUE, key |-> <<>>]
         ELSE [raised |-> FALSE, key |-> Stem(Value(sample.name))]

\* DatasetTest._clone_annotation_for_upload
CloneAnnotationForUpload(annotation) ==
    [label |-> annotation.label, object_id |-> annotation.object_id,
     box2d |-> annotation.box2d, box3d |-> annotation.box3d,
     mask |-> annotation.mask]

\* dict[key] = value
DictSet(dict, key, value) ==
    [k \in DOMAIN dict \cup {key} |-> IF k = key THEN value ELSE dict[k]]

\* The body of the loop of _build_samples_payload for one sample: whether
\* it raises.
PayloadSampleRaises(sample, selected_files, source_annotations) ==
    \/ IsNone(sample.uuid)
    \/ SampleImageKey(sample).raised
    \/ SampleImageKey(sample).key \notin DOMAIN selected_files
    \/ \E k \in 1..Len(source_annotations) :
           AnnotationImageKey(source_annotations[k]).raised

\* The Sample the loop builds for one sample.
PayloadSample(sample, selected_files, source_annotations) ==
    LET sample_key == SampleImageKey(sample).key
        file_path == selected_files[sample_key]
        image_name == IF IsNone(sample.image_name)
                      THEN sample_key \o Suffix(file_path)
                      ELSE Value(sample.image_name)
        related_annotations ==
            SelectSeq(source_annotations,
                      LAMBDA ann : AnnotationImageKey(ann).key = sample_key)
    IN  [NewSample EXCEPT
            !.image_name = Some(image_name),
            !.group = sample.group,
            !.sequence_name = sample.sequence_name,
            !.frame_number = sample.frame_number,
            !.files = <<SampleFile("image", file_path)>>,
            !.annotations =
                [k \in 1..Len(related_annotations) |->
                    CloneAnnotationForUpload(related_annotations[k])]]

NoPayload ==
    [raised |-> TRUE, payload |-> <<>>, image_keys |-> <<>>,
     source_uuids |-> EmptyDict, expected_groups |-> EmptyDict,
     expected_names |-> EmptyDict]

\* DatasetTest._build_samples_payload, info being the dict built so far
RECURSIVE BuildSamplesPayloadFrom(_, _, _, _)
BuildSamplesPayloadFrom(info, selected_samples, selected_files, source_annotations) ==
    IF selected_samples = <<>> THEN info
    ELSE IF PayloadSampleRaises(Head(selected_samples), selected_files,
                                source_annotations)
    THEN NoPayload
    ELSE LET sample == Head(selected_samples)
             sample_key == SampleImageKey(sample).key
             new_sample == PayloadSample(sample, selected_files,
                                         source_annotations)
         IN  BuildSamplesPayloadFrom(
                 [raised |-> FALSE,
                  payload |-> Append(info.payload, new_sample),
                  image_keys |-> Append(info.image_keys, sample_key),
                  source_uuids |->
                      DictSet(info.source_uuids, sample_key,
                              Value(sample.uuid)),
                  expected_groups |->
                      DictSet(info.expected_groups, sample_key, sample.group),
                  expected_names |->
                      DictSet(info.expected_names, sample_key,
                              Value(new_sample.image_name))],
                 Tail(selected_samples), selected_files, source_annotations)

BuildSamplesPayload(selected_samples, selected_files, source_annotations) ==
    BuildSamplesPayloadFrom([NoPayload EXCEPT !.raised = FALSE],
                            selected_samples, selected_files,
                            source_annotations)

----------------------------------------------------------------------------
(* The functions before they are called *)

ComparatorIdle ==
    /\ original = None
    /\ exported = None
    /\ tolerance = None
    /\ orig_grouped = None
    /\ export_grouped = None
    /\ results = None

ReconcilerIdle ==
    /\ annotations = <<>>
    /\ cursor = 0
    /\ grouped = EmptyDict
    /\ status = "idle"

GeometryIdle ==
    /\ geometry = None
    /\ normalized_bbox = None
    /\ normalized_polygon = None
    /\ coco_bbox = None

ConversionIdle ==
    /\ conversion = None
    /\ converted = None
    /\ converted_back = None

SequenceIdle ==
    /\ sequence = None
    /\ sequence_uuids = <<>>
    /\ uploads = <<>>
    /\ payload_info = None

\* The utilities before they are used
ProgressIdle ==
    /\ pbar = [n |-> 0, total |-> 0]
    /\ reports = <<>>

StorageIdle ==
    /\ storages = <<None, None>>
    /\ storage_calls = <<>>

IndexingIdle ==
    /\ dataset_labels = <<>>
    /\ label_index = <<>>
    /\ indexing = None

CollectIdle ==
    /\ collect = None
    /\ rpc_log = <<>>

CoreIdle ==
    /\ ReconcilerIdle /\ ComparatorIdle /\ GeometryIdle
    /\ ConversionIdle /\ SequenceIdle

UtilitiesIdle ==
    ProgressIdle /\ StorageIdle /\ IndexingIdle /\ CollectIdle

IdleExceptProgress ==
    CoreIdle /\ StorageIdle /\ IndexingIdle /\ CollectIdle

IdleExceptStorage ==
    CoreIdle /\ ProgressIdle /\ IndexingIdle /\ CollectIdle

IdleExceptIndexing ==
    CoreIdle /\ ProgressIdle /\ StorageIdle /\ CollectIdle

IdleExceptCollect ==
    CoreIdle /\ ProgressIdle /\ StorageIdle /\ IndexingIdle

IdleExceptReconciler ==
    ComparatorIdle /\ GeometryIdle /\ ConversionIdle /\ SequenceIdle
        /\ UtilitiesIdle
IdleExceptComparator ==
    ReconcilerIdle /\ GeometryIdle /\ ConversionIdle /\ SequenceIdle
        /\ UtilitiesIdle
IdleExceptGeometry ==
    ReconcilerIdle /\ ComparatorIdle /\ ConversionIdle /\ SequenceIdle
        /\ UtilitiesIdle
IdleExceptConversion ==
    ReconcilerIdle /\ ComparatorIdle /\ GeometryIdle /\ SequenceIdle
        /\ UtilitiesIdle
IdleExceptSequence ==
    ReconcilerIdle /\ ComparatorIdle /\ GeometryIdle /\ ConversionIdle
        /\ UtilitiesIdle

----------------------------------------------------------------------------
(* Inputs of the reconciler *)

Str_x == <<"x">>
Str_y == <<"y">>
Str_1 == <<"1">>
Str_g == <<"g">>
NameA == <<"a", ".", "j", "p", "g">>          \* "a.jpg"
NameB == <<"d", "/", "b", ".", "j", "p", "g">> \* "d/b.jpg"
NameEmpty == <<>>                              \* ""

\* Boxes (left, top, width, height), 3d boxes and masks, in 1e-7 units.
BoxP == <<1000000, 2000000, 3000000, 4000000>>
BoxPr == <<1000004, 2000000, 3000000, 4000000>>  \* rounds to the signature of BoxP
BoxQ == <<5000000, 2000000, 3000000, 4000000>>
Box3dD == <<1000000, 1000000, 1000000, 2000000, 2000000, 2000000>>
MaskM == << << <<1000000, 1000000>>, <<2000000, 1000000>>, <<2000000, 2000000>> >> >>

Ann(name, label, object_id, group, box2d, box3d, mask) ==
    [name |-> name, label |-> label, object_id |-> object_id, group |-> group,
     box2d |-> box2d, box3d |-> box3d, mask |-> mask]

\* Fragments of label "x" on image "a": every combination of group,
\* box2d and mask.
CoreAnnotations ==
    {Ann(Some(NameA), Some(Str_x), None, g, b, None, m) :
        g \in {None, Some(Str_g)},
        b \in {None, Some(BoxP), Some(BoxQ)},
        m \in {None, Some(MaskM)}}

\* Other identities, other images, 3d boxes, unrounded coordinates and
\* records without a usable sample name.
OtherAnnotations ==
    { Ann(Some(NameA), Some(Str_y), None, None, Some(BoxP), None, None),
      Ann(Some(NameA), Some(Str_x), Some(Str_1), None, None, None, Some(MaskM)),
      Ann(Some(NameA), Some(Str_x), None, None, None, Some(Box3dD), None),
      Ann(Some(NameA), Some(Str_x), None, None, Some(BoxP), Some(Box3dD), None),
      Ann(Some(NameA), Some(Str_x), None, None, Some(BoxPr), None, None),
      Ann(Some(NameB), Some(Str_x), None, None, None, None, Some(MaskM)),
      Ann(Some(NameEmpty), Some(Str_x), None, None, Some(BoxP), None, None),
      Ann(None, Some(Str_x), None, None, Some(BoxP), None, None) }

AnnotationUniverse == CoreAnnotations \cup OtherAnnotations

AnnotationLists ==
    UNION {[1..n -> AnnotationUniverse] : n \in 0..MaxAnnotations}

----------------------------------------------------------------------------
(* _build_annotation_map as a state machine: one step per loop iteration,  *)
(* then the sort and the return.                                           *)


InitReconciler ==
    /\ annotations \in AnnotationLists
    /\ cursor = 0
    /\ grouped = EmptyDict
    /\ status = "running"
    /\ IdleExceptReconciler

\* The loop body for a record whose image key is found.
ProcessAnnotation ==
    /\ status = "running"
    /\ cursor < Len(annotations)
    /\ ~AnnotationImageKey(annotations[cursor + 1]).raised
    /\ grouped' = GroupAnnotation(grouped, annotations[cursor + 1])
    /\ cursor' = cursor + 1
    /\ UNCHANGED <<annotations, status>>
    /\ UNCHANGED exceptReconciler

\* assertIsNotNone fails in _annotation_image_key: the call raises.
MissingSampleName ==
    /\ status = "running"
    /\ cursor < Len(annotations)
    /\ AnnotationImageKey(annotations[cursor + 1]).raised
    /\ status' = "failed"
    /\ UNCHANGED <<annotations, cursor, grouped>>
    /\ UNCHANGED exceptReconciler

\* The sort of every group and the return.
SortAndReturn ==
    /\ status = "running"
    /\ cursor = Len(annotations)
    /\ grouped' = SortGrouped(grouped)
    /\ status' = "done"
    /\ UNCHANGED <<annotations, cursor>>
    /\ UNCHANGED exceptReconciler

NextReconciler ==
    \/ ProcessAnnotation
    \/ MissingSampleName
    \/ SortAndReturn

SpecReconciler == InitReconciler /\ [][NextReconciler]_vars

----------------------------------------------------------------------------
(* Inputs of the comparator *)

Str_cat == <<"c", "a", "t">>
Str_dog == <<"d", "o", "g">>

Image(id, width, height, file_name) ==
    [id |-> id, width |-> width, height |-> height, file_name |-> file_name]

ImgA == Image(1, 100, 100, <<"a", ".", "j", "p", "g">>)
ImgB == Image(2, 200, 100, <<"d", "/", "b", ".", "p", "n", "g">>)
ImgC == Image(2, 200, 100, <<"c", ".", "j", "p", "g">>)

Category(id, name) == [id |-> id, name |-> name]

CocoAnn(image_id, category_id, bbox) ==
    [image_id |-> image_id, category_id |-> category_id, bbox |-> bbox]

\* Pixel boxes (x, y, w, h).  On the 100 x 100 image PixP and PixP2 differ
\* by 0.02 in x (0.10 and 0.12), PixP and PixP3 by 0.02 in y (0.50 and
\* 0.52), PixP and PixQ by 0.01 in x and 0.4 in y.
PixP == <<10, 50, 20, 20>>
PixP2 == <<12, 50, 20, 20>>
PixP3 == <<10, 52, 20, 20>>
PixQ == <<11, 90, 20, 20>>

\* The annotations of the original, and those an exported collection may
\* hold besides: a shifted box and another category.
OriginalAnnotationUniverse ==
    { CocoAnn(1, 1, Some(PixP)), CocoAnn(1, 1, Some(PixQ)),
      CocoAnn(2, 1, Some(PixP)) }

ExportedAnnotationUniverse ==
    OriginalAnnotationUniverse
        \cup { CocoAnn(1, 1, Some(PixP2)), CocoAnn(1, 1, Some(PixP3)),
               CocoAnn(1, 2, Some(PixP)) }

CocoAnnotationLists(universe) ==
    UNION {[1..n -> universe] : n \in 0..MaxCocoAnnotations}

Dataset(images, categories, anns) ==
    [images |-> images, categories |-> categories, annotations |-> Some(anns)]

OriginalImageLists == {<<ImgA>>, <<ImgA, ImgB>>}
\* The exported images: those of the original, or with the last replaced.
ExportedImageLists(images) ==
    {images, [images EXCEPT ![Len(images)] = ImgC],
     SubSeq(images, 1, Len(images) - 1)}

OriginalCategories == <<Category(1, Str_cat), Category(2, Str_dog)>>
ExportedCategoryLists ==
    {OriginalCategories, <<Category(1, Str_cat)>>}

Tolerances == {Rat(2, 100), Rat(1, 100)}

----------------------------------------------------------------------------
(* _compare_coco_annotations as a state machine: the call returns its      *)
(* report or raises.                                                       *)


InitComparator ==
    /\ \E images \in OriginalImageLists,
          anns \in CocoAnnotationLists(OriginalAnnotationUniverse) :
        original = Dataset(images, OriginalCategories, anns)
    /\ \E images \in ExportedImageLists(original.images),
          categories \in ExportedCategoryLists,
          anns \in CocoAnnotationLists(ExportedAnnotationUniverse) :
        exported = Dataset(images, categories, anns)
    /\ tolerance \in Tolerances
    /\ orig_grouped = None
    /\ export_grouped = None
    /\ results = None
    /\ IdleExceptComparator

Compare ==
    /\ results = None
    /\ orig_grouped' = Some(GroupByImage(original))
    /\ export_grouped' = Some(GroupByImage(exported))
    /\ results' = Some(CompareGrouped(original, exported, tolerance,
                                      Value(orig_grouped'),
                                      Value(export_grouped')))
    /\ UNCHANGED <<original, exported, tolerance>>
    /\ UNCHANGED exceptComparator

NextComparator == Compare

SpecComparator == InitComparator /\ [][NextComparator]_vars

----------------------------------------------------------------------------
(* Inputs of the geometry conversions *)

\* Pixel boxes: inside the image, partly outside it (negative corner, wider
\* than the image), with components that are no multiples of the image
\* size, and far outside with components near 2^26.
GeometryBoxes ==
    { <<10, 50, 20, 20>>, <<-29, 90, 130, 30>>, <<29, 58, 61, 115>>,
      <<59254066, 59109769, 8388607, 1>> }

\* Flat pixel polygons of 0, 2 and 3 points, and one with a missing y.
GeometryPolygons ==
    { <<>>, <<10, 20, 30, 40>>, <<10, 20, 30, 40, 50, 60>>, <<10, 20, 30>> }

\* Image sizes (width, height), also zero and negative ones.
GeometryDims ==
    { <<100, 100>>, <<7, 7>>, <<3446, 777>>,
      <<0, 100>>, <<100, 0>>, <<-100, 100>>, <<100, -50>> }

----------------------------------------------------------------------------
(* The geometry conversions as a state machine: each function is called    *)
(* once on the arguments; normalized_bbox_to_coco takes the box that       *)
(* coco_bbox_to_normalized returned.                                       *)

InitGeometry ==
    /\ \E bbox \in GeometryBoxes, polygon \in GeometryPolygons,
          dims \in GeometryDims :
        geometry = [bbox |-> Pixels(bbox), polygon |-> Pixels(polygon),
                    width |-> dims[1], height |-> dims[2]]
    /\ normalized_bbox = None
    /\ normalized_polygon = None
    /\ coco_bbox = None
    /\ IdleExceptGeometry

BboxToNormalized ==
    /\ normalized_bbox = None
    /\ normalized_bbox' = Some(CocoBboxToNormalized(geometry.bbox,
                                   geometry.width, geometry.height))
    /\ UNCHANGED <<geometry, normalized_polygon, coco_bbox>>
    /\ UNCHANGED exceptGeometry

PolygonToNormalized ==
    /\ normalized_polygon = None
    /\ normalized_polygon' = Some(CocoPolygonToNormalized(geometry.polygon,
                                      geometry.width, geometry.height))
    /\ UNCHANGED <<geometry, normalized_bbox, coco_bbox>>
    /\ UNCHANGED exceptGeometry

BboxBackToCoco ==
    /\ normalized_bbox # None
    /\ Value(normalized_bbox).error = NoError
    /\ coco_bbox = None
    /\ coco_bbox' = Some(NormalizedBboxToCoco(Value(normalized_bbox).bbox,
                             geometry.width, geometry.height))
    /\ UNCHANGED <<geometry, normalized_bbox, normalized_polygon>>
    /\ UNCHANGED exceptGeometry

NextGeometry == BboxToNormalized \/ PolygonToNormalized \/ BboxBackToCoco

SpecGeometry == InitGeometry /\ [][NextGeometry]_vars

----------------------------------------------------------------------------
(* Inputs of the conversions *)

\* Flat pixel polygons of 3, 4 and 2 points.
PixTriangle == Pixels(<<10, 20, 30, 40, 50, 60>>)
PixQuad == Pixels(<<10, 10, 90, 10, 90, 90, 10, 90>>)
PixSegment == Pixels(<<10, 20, 30, 40>>)

SegmentedAnn(id, image_id, category_id, bbox, segmentation) ==
    [id |-> id, image_id |-> image_id, category_id |-> category_id,
     bbox |-> Pixels(bbox), segmentation |-> segmentation]

\* COCO annotations: without segmentation, with an empty one, with short
\* polygons among others or alone, of a category that is not listed, and
\* of an image that is not listed.
SegmentedAnnotationUniverse ==
    { SegmentedAnn(1, 1, 1, PixP, None),
      SegmentedAnn(2, 1, 2, PixQ, Some(<<PixTriangle, PixSegment, PixQuad>>)),
      SegmentedAnn(3, 1, 1, PixP2, Some(<<PixSegment>>)),
      SegmentedAnn(4, 1, 3, PixP, Some(<<PixQuad>>)),
      SegmentedAnn(5, 2, 1, PixQ, Some(<<>>)) }

BoundedLists(universe) ==
    UNION {[1..n -> universe] : n \in 0..MaxConversionAnnotations}

\* A second image of another size whose file name has the stem of ImgA.
ImgA2 == Image(2, 200, 50, <<"d", "/", "a", ".", "p", "n", "g">>)

\* One image with annotations of every kind, or the two images of one stem
\* with boxes on either.
CocoInputs ==
    {[images |-> <<ImgA>>, categories |-> OriginalCategories,
      annotations |-> anns] : anns \in BoundedLists(SegmentedAnnotationUniverse)}
    \cup
    {[images |-> <<ImgA, ImgA2>>, categories |-> OriginalCategories,
      annotations |-> anns] :
        anns \in BoundedLists({a \in SegmentedAnnotationUniverse : a.id \in {1, 5}})}

\* Normalized geometry
NormBox == <<Coordinate(1, 10), Coordinate(1, 2), Coordinate(1, 5),
             Coordinate(1, 5)>>
NormPoint(x, y) == <<Coordinate(x, 10), Coordinate(y, 10)>>
NormTriangle == <<NormPoint(1, 2), NormPoint(3, 4), NormPoint(5, 6)>>
NormQuad == <<NormPoint(1, 1), NormPoint(9, 1), NormPoint(9, 9),
              NormPoint(1, 9)>>
NormSegment == <<NormPoint(1, 2), NormPoint(3, 4)>>

NormAnn(label, box2d, mask) ==
    [label |-> label, object_id |-> None, box2d |-> box2d, mask |-> mask]

\* Annotations of samples: with a box, with a mask of short polygons among
\* others or alone, and without a label.
NormAnnotationUniverse ==
    { NormAnn(Some(Str_x), Some(NormBox), None),
      NormAnn(Some(Str_y), None, Some(<<NormTriangle, NormSegment, NormQuad>>)),
      NormAnn(None, None, Some(<<NormSegment>>)),
      NormAnn(Some(Str_x), Some(NormBox), Some(<<NormQuad>>)) }

SampleOf(name, width, height, anns) ==
    [name |-> name, group |-> None, width |-> width, height |-> height,
     annotations |-> anns]

\* One sample, or two with at most one annotation on the second: the first
\* as built locally (no size), the second without a name and with a size.
SampleInputs ==
    LET first == {SampleOf(Some(<<"a">>), None, None, anns) :
                     anns \in BoundedLists(NormAnnotationUniverse)}
        second == {SampleOf(None, Some(200), Some(100), anns) :
                      anns \in {<<>>} \cup {<<a>> : a \in NormAnnotationUniverse}}
    IN  {<<s>> : s \in first} \cup {<<s, t>> : s \in first, t \in second}

Groups == {None, Some(Str_g), Some(<<>>)}

----------------------------------------------------------------------------
(* The conversions as a state machine: one of the two functions is called  *)
(* on the arguments, then the other on its result.                         *)

InitConversion ==
    /\ \/ \E coco_data \in CocoInputs, group \in Groups :
            conversion = [function |-> "coco_to_samples", data |-> coco_data,
                          group |-> group, include_masks |-> TRUE]
       \/ \E samples \in SampleInputs, include_masks \in BOOLEAN :
            conversion = [function |-> "samples_to_coco", data |-> samples,
                          group |-> None, include_masks |-> include_masks]
    /\ converted = None
    /\ converted_back = None
    /\ IdleExceptConversion

CallCocoToSamples ==
    /\ conversion.function = "coco_to_samples"
    /\ converted = None
    /\ converted' = Some(CocoToSamples(conversion.data, conversion.group))
    /\ UNCHANGED <<conversion, converted_back>>
    /\ UNCHANGED exceptConversion

CallSamplesToCoco ==
    /\ conversion.function = "samples_to_coco"
    /\ converted = None
    /\ converted' = Some(SamplesToCoco(conversion.data,
                                       conversion.include_masks))
    /\ UNCHANGED <<conversion, converted_back>>
    /\ UNCHANGED exceptConversion

\* samples_to_coco(coco_to_samples(coco_data))
SamplesBackToCoco ==
    /\ conversion.function = "coco_to_samples"
    /\ converted # None
    /\ Value(converted).error = NoError
    /\ converted_back = None
    /\ converted_back' = Some(SamplesToCoco(Value(converted).samples, TRUE))
    /\ UNCHANGED <<conversion, converted>>
    /\ UNCHANGED exceptConversion

\* coco_to_samples(samples_to_coco(samples))
CocoBackToSamples ==
    /\ conversion.function = "samples_to_coco"
    /\ converted # None
    /\ converted_back = None
    /\ converted_back' = Some(CocoToSamples(Value(converted), None))
    /\ UNCHANGED <<conversion, converted>>
    /\ UNCHANGED exceptConversion

NextConversion ==
    \/ CallCocoToSamples
    \/ CallSamplesToCoco
    \/ SamplesBackToCoco
    \/ CocoBackToSamples

SpecConversion == InitConversion /\ [][NextConversion]_vars

----------------------------------------------------------------------------
(* Inputs of the sequence identifiers and of the Samples built for upload *)

FramesPerSequence == 10

Str_ds1 == <<"d", "s", "-", "1">>
Str_ds11 == <<"d", "s", "-", "1", "1">>
Str_ds1_1 == <<"d", "s", "-", "1", "/", "1">>
Str_ds2 == <<"d", "s", "-", "2">>
Str_a == <<"a">>
Str_1a == <<"1", "a">>
Str_1_a == <<"1", "/", "a">>
Str_numbers == <<"n", "u", "m", "b", "e", "r", "s">>
Str_letters == <<"l", "e", "t", "t", "e", "r", "s">>

\* Arguments of generate_sequence_uuid: any two strings
DatasetIdStrings == {Str_ds1, Str_ds11, Str_ds1_1}
SequenceNames == {Str_a, Str_1a, Str_1_a}
\* str(dataset_id) of the dataset of the upload test
DatasetIds == {Str_ds1, Str_ds2}

PathA == <<"t", "/", "a", ".", "j", "p", "g">>   \* "t/a.jpg"
PathB == <<"t", "/", "b", ".", "p", "n", "g">>   \* "t/b.png"
SelectedFiles == DictSet(DictSet(EmptyDict, <<"a">>, PathA), <<"b">>, PathB)

SourceSample(uuid, image_name, name, group, sequence_name, frame_number) ==
    [uuid |-> uuid, image_name |-> image_name, name |-> name, group |-> group,
     sequence_name |-> sequence_name, frame_number |-> frame_number]

\* Samples of the source dataset: of a sequence and of none, with and
\* without an image name, without any name, and without a uuid.
SourceSamples ==
    { SourceSample(Some(Str_1), Some(NameA), None, Some(Str_g),
                   Some(Str_numbers), Some(1)),
      SourceSample(Some(Str_x), None, Some(<<"b">>), None,
                   Some(Str_numbers), Some(2)),
      SourceSample(Some(Str_y), Some(NameA), None, None, None, None),
      SourceSample(Some(Str_g), None, Some(<<"b">>), Some(Str_g), None,
                   None),
      SourceSample(Some(Str_a), None, None, None, None, None),
      SourceSample(None, Some(NameA), None, None, None, None) }

SourceAnnotationLists ==
    { <<>>,
      <<Ann(Some(NameA), Some(Str_x), None, None, Some(BoxP), None, None),
        Ann(Some(<<"b">>), Some(Str_y), Some(Str_1), None, None, None,
            Some(MaskM))>>,
      <<Ann(None, Some(Str_x), None, None, Some(BoxP), None, None)>> }

----------------------------------------------------------------------------
(* The sequence identifiers as a state machine: two calls of               *)
(* generate_sequence_uuid, or the Samples of the upload test built         *)
(* sequence by sequence, or one call of _build_samples_payload.            *)

InitSequence ==
    /\ \/ \E d1, d2 \in DatasetIdStrings, n1, n2 \in SequenceNames :
            sequence = [function |-> "generate_sequence_uuid",
                        calls |-> <<<<d1, n1>>, <<d2, n2>>>>]
       \/ \E dataset_id_str \in DatasetIds :
            sequence = [function |-> "test_sequence_upload_and_verification",
                        dataset_id_str |-> dataset_id_str,
                        seq_names |-> <<Str_numbers, Str_letters>>]
       \/ \E n \in 0..MaxSelectedSamples :
            \E selected_samples \in [1..n -> SourceSamples],
               source_annotations \in SourceAnnotationLists :
                sequence = [function |-> "_build_samples_payload",
                            selected_samples |-> selected_samples,
                            selected_files |-> SelectedFiles,
                            source_annotations |-> source_annotations]
    /\ sequence_uuids = <<>>
    /\ uploads = <<>>
    /\ payload_info = None
    /\ IdleExceptSequence

CallGenerateSequenceUuid ==
    /\ sequence.function = "generate_sequence_uuid"
    /\ Len(sequence_uuids) < Len(sequence.calls)
    /\ LET call == sequence.calls[Len(sequence_uuids) + 1]
       IN  sequence_uuids' =
               Append(sequence_uuids, GenerateSequenceUuid(call[1], call[2]))
    /\ UNCHANGED <<sequence, uploads, payload_info>>
    /\ UNCHANGED exceptSequence

\* "Sequence 1" and "Sequence 2" of the test: the identifier, then one
\* Sample per frame.
BuildSequenceSamples ==
    /\ sequence.function = "test_sequence_upload_and_verification"
    /\ Len(sequence_uuids) < Len(sequence.seq_names)
    /\ LET seq_name == sequence.seq_names[Len(sequence_uuids) + 1]
       IN  \E seq_uuid \in {GenerateSequenceUuid(sequence.dataset_id_str,
                                                 seq_name)} :
            /\ sequence_uuids' = Append(sequence_uuids, seq_uuid)
            /\ uploads' = uploads \o
                   [i \in 1..FramesPerSequence |->
                       SequenceSample(seq_name, seq_uuid, i,
                                      DecimalString(i) \o Str_jpg)]
    /\ UNCHANGED <<sequence, payload_info>>
    /\ UNCHANGED exceptSequence

\* "Non-sequence 1" and "Non-sequence 2" of the test.
BuildNonSequenceSample ==
    /\ sequence.function = "test_sequence_upload_and_verification"
    /\ Len(sequence_uuids) = Len(sequence.seq_names)
    /\ Len(uploads) < 2 * FramesPerSequence + 2
    /\ uploads' = Append(uploads,
                         NonSequenceSample(IF Len(uploads) = 2 * FramesPerSequence
                                           THEN PathA ELSE PathB))
    /\ UNCHANGED <<sequence, sequence_uuids, payload_info>>
    /\ UNCHANGED exceptSequence

CallBuildSamplesPayload ==
    /\ sequence.function = "_build_samples_payload"
    /\ payload_info = None
    /\ \E info \in {BuildSamplesPayload(sequence.selected_samples,
                                        sequence.selected_files,
                                        sequence.source_annotations)} :
        /\ payload_info' = Some(info)
        /\ uploads' = info.payload
    /\ UNCHANGED <<sequence, sequence_uuids>>
    /\ UNCHANGED exceptSequence

NextSequence ==
    \/ CallGenerateSequenceUuid
    \/ BuildSequenceSamples
    \/ BuildNonSequenceSample
    \/ CallBuildSamplesPayload

SpecSequence == InitSequence /\ [][NextSequence]_vars

----------------------------------------------------------------------------
(* The progress callback of examples/download.py and of test.py, on a      *)
(* tqdm bar created with total=0.  Of the bar, the position n and the      *)
(* total are kept: reset(total) puts the position back to 0 and sets the   *)
(* total, update(n) adds n to the position.                                *)

MaxReports == 3         \* calls of the callback
MaxProgressValue == 2   \* largest current or total reported

\* pbar.reset(total)
Reset(bar, total) == [n |-> 0, total |-> total]

\* pbar.update(n)
Update(bar, n) == [bar EXCEPT !.n = @ + n]

\* The callback without "if total != pbar.total: pbar.reset(total)"
ProgressWithoutReset(current, total, bar) == Update(bar, current - bar.n)

\* progress(current, total, pbar): the bar after the call
Progress(current, total, bar) ==
    LET after_reset == IF total # bar.total THEN Reset(bar, total) ELSE bar
    IN  Update(after_reset, current - after_reset.n)

ProgressValues == 0..MaxProgressValue

InitProgress ==
    /\ pbar = [n |-> 0, total |-> 0]
    /\ reports = <<>>
    /\ IdleExceptProgress

\* The library reports (current, total); reports arrive in any order, so
\* current may go down, repeat or exceed the total.
CallProgress ==
    /\ Len(reports) < MaxReports
    /\ \E current \in ProgressValues, total \in ProgressValues :
          /\ pbar' = Progress(current, total, pbar)
          /\ reports' = Append(reports, [current |-> current, total |-> total])
    /\ UNCHANGED exceptProgress

NextProgress == CallProgress

SpecProgress == InitProgress /\ [][NextProgress]_vars

----------------------------------------------------------------------------
(* Token storage: the class DictStorage of test/test_storage.py, two        *)
(* objects of it, and the calls a client makes on them.                     *)

MaxStorageCalls == 3   \* calls made on the storage objects

Storages == {1, 2}
Tokens == {"token-a", "token-b"}

\* "self._token = token" on a class attribute: the token of every object
StoreInClass(tokens, self, token) == [s \in DOMAIN tokens |-> Some(token)]

\* DictStorage.store(self, token): the tokens afterwards
Store(tokens, self, token) == [tokens EXCEPT ![self] = Some(token)]

\* DictStorage.load(self): what is returned
Load(tokens, self) == tokens[self]

\* DictStorage.clear(self): the tokens afterwards
Clear(tokens, self) == [tokens EXCEPT ![self] = None]

StorageCall(self, method, token, returned) ==
    [self |-> self, method |-> method, token |-> token, returned |-> returned]

\* DictStorage(), twice
InitStorage ==
    /\ storages = <<None, None>>
    /\ storage_calls = <<>>
    /\ IdleExceptStorage

CallStore ==
    /\ Len(storage_calls) < MaxStorageCalls
    /\ \E self \in Storages, token \in Tokens :
          /\ storages' = Store(storages, self, token)
          /\ storage_calls' =
                 Append(storage_calls, StorageCall(self, "store", token, None))
    /\ UNCHANGED exceptStorage

CallLoad ==
    /\ Len(storage_calls) < MaxStorageCalls
    /\ \E self \in Storages :
          storage_calls' =
              Append(storage_calls,
                     StorageCall(self, "load", "", Load(storages, self)))
    /\ UNCHANGED storages
    /\ UNCHANGED exceptStorage

CallClear ==
    /\ Len(storage_calls) < MaxStorageCalls
    /\ \E self \in Storages :
          /\ storages' = Clear(storages, self)
          /\ storage_calls' =
                 Append(storage_calls, StorageCall(self, "clear", "", None))
    /\ UNCHANGED exceptStorage

NextStorage ==
    \/ CallStore
    \/ CallLoad
    \/ CallClear

SpecStorage == InitStorage /\ [][NextStorage]_vars

----------------------------------------------------------------------------
(* The label re-indexing of examples/coco.py on a dataset that has the     *)
(* first MaxLabels labels of the COCO table (the dataset has 80):          *)
(* label_index is what label.set_index writes and dataset.labels reads.    *)

MaxLabels == 3        \* labels of the dataset
IndexOffset == 1000   \* "1000 + index"

CocoNames == <<"person", "bicycle", "car", "motorcycle", "airplane">>

\* coco_labels: index -> name
coco_labels == [index \in 0..(MaxLabels - 1) |-> CocoNames[index + 1]]

LabelNames == {coco_labels[index] : index \in DOMAIN coco_labels}

\* coco_indices = {v: k for k, v in coco_labels.items()}
coco_indices ==
    [name \in LabelNames |->
        CHOOSE index \in DOMAIN coco_labels : coco_labels[index] = name]

\* The first pass setting the final index at once
FirstPassIndexDirect(index) == index

\* "1000 + index"
FirstPassIndex(index) == IndexOffset + index

\* label.set_index(client, index): the indices the server holds afterwards
SetIndex(indices, label, index) == [indices EXCEPT ![label.name] = index]

\* "assert label.name == coco_labels[label.index]" for every label
LabelsVerified(indices) ==
    \A name \in DOMAIN indices :
        /\ indices[name] \in DOMAIN coco_labels
        /\ coco_labels[indices[name]] = name

\* Indices a label may have before: final ones, one above them, and the
\* first ones of the range the first pass uses.
InitialIndices == 0..MaxLabels \cup IndexOffset..(IndexOffset + 1)

\* The labels in the order of the table or in the opposite order.
LabelOrders ==
    { [k \in 1..MaxLabels |-> coco_labels[k - 1]],
      [k \in 1..MaxLabels |-> coco_labels[MaxLabels - k]] }

\* dataset.labels(client) of a dataset whose labels have distinct indices
InitIndexing ==
    /\ \E order \in LabelOrders :
       \E indices \in [LabelNames -> InitialIndices] :
          /\ \A a, b \in LabelNames : a # b => indices[a] # indices[b]
          /\ label_index = indices
          /\ dataset_labels = [k \in 1..MaxLabels |->
                                  [name |-> order[k], index |-> indices[order[k]]]]
    /\ indexing = [pass |-> 1, done |-> 0, verified |-> None]
    /\ IdleExceptIndexing

\* After one more label: the same pass, or the next pass from the start.
Advance(state) ==
    IF state.done + 1 < Len(dataset_labels)
    THEN [state EXCEPT !.done = @ + 1]
    ELSE [state EXCEPT !.pass = @ + 1, !.done = 0]

\* One iteration of "Indexing #1"
IndexingPass1 ==
    /\ indexing # None
    /\ indexing.pass = 1
    /\ \E label \in {dataset_labels[indexing.done + 1]} :
          label_index' = SetIndex(label_index, label,
                                  FirstPassIndex(coco_indices[label.name]))
    /\ indexing' = Advance(indexing)
    /\ UNCHANGED dataset_labels
    /\ UNCHANGED exceptIndexing

\* One iteration of "Indexing #2"
IndexingPass2 ==
    /\ indexing # None
    /\ indexing.pass = 2
    /\ \E label \in {dataset_labels[indexing.done + 1]} :
          label_index' = SetIndex(label_index, label,
                                  coco_indices[label.name])
    /\ indexing' = Advance(indexing)
    /\ UNCHANGED dataset_labels
    /\ UNCHANGED exceptIndexing

\* The final loop over dataset.labels(client)
VerifyLabels ==
    /\ indexing # None
    /\ indexing.pass = 3
    /\ indexing' = [indexing EXCEPT !.pass = 4,
                                    !.verified = Some(LabelsVerified(label_index))]
    /\ UNCHANGED <<dataset_labels, label_index>>
    /\ UNCHANGED exceptIndexing

NextIndexing ==
    \/ IndexingPass1
    \/ IndexingPass2
    \/ VerifyLabels

SpecIndexing == InitIndexing /\ [][NextIndexing]_vars

----------------------------------------------------------------------------
(* Pagination: TestDeerAnnotationsRaw._collect_samples of                   *)
(* test/test_deer_annotations_raw.py.  A JSON value is a record with the    *)
(* Python type it decodes to; the server answers each request with any      *)
(* page.                                                                    *)

MAX_PAGES == 10

\* The value of a number is kept as its decimal digits.
JsonNone == [type |-> "NoneType", value |-> <<>>]
JsonStr(str) == [type |-> "str", value |-> str]
JsonInt(n) == [type |-> "int", value |-> DecimalString(n)]
JsonSample(page, n) == [type |-> "dict", page |-> page, n |-> n]

\* "if continue_token:" of a value that is None or a str
Truthy(token) == ~IsNone(token) /\ Value(token) # <<>>

\* "[item for item in raw_samples if isinstance(item, dict)]"
PageSamples(raw_samples) ==
    SelectSeq(raw_samples, LAMBDA item : item.type = "dict")

\* "continue_token = token_raw" whatever the type of token_raw
ContinueTokenUnchecked(result) ==
    IF result.continue_token.type = "NoneType" THEN None
    ELSE Some(result.continue_token.value)

\* "continue_token = token_raw if isinstance(token_raw, str) else None"
ContinueToken(result) ==
    IF result.continue_token.type = "str"
    THEN Some(result.continue_token.value)
    ELSE None

\* The locals after the body of the loop has run on a result, and how the
\* function ends if it ends there: a break is followed by the assertion on
\* the samples and the return, the MAX_PAGES-th iteration without a break
\* by the else branch of the loop.
CollectStep(locals, result) ==
    LET samples == locals.samples \o PageSamples(result.samples)
        continue_token == ContinueToken(result)
        iterations == locals.iterations + 1
    IN  [samples |-> samples,
         continue_token |-> continue_token,
         first_page |-> IF IsNone(locals.first_page) THEN Some(result)
                        ELSE locals.first_page,
         iterations |-> iterations,
         status |-> IF ~Truthy(continue_token)
                    THEN (IF Len(samples) > 0 THEN "returned"
                          ELSE "failed: No samples returned from API")
                    ELSE IF iterations = MAX_PAGES
                    THEN "failed: Exceeded MAX_PAGES"
                    ELSE "running"]

\* The continuation tokens a page may carry: none, a str naming the next
\* page, the empty str, or a value that is no str.
PageTokens(page) ==
    {JsonNone, JsonStr(<<"t">> \o DecimalString(page)), JsonStr(<<>>),
     JsonInt(page)}

\* The items a page may carry: none, or two samples around an item that is
\* no dict.
PageItems(page) ==
    {<<>>, <<JsonSample(page, 1), JsonStr(<<"x">>), JsonSample(page, 2)>>}

InitCollect ==
    /\ collect = Some([samples |-> <<>>, continue_token |-> None,
                       first_page |-> None, iterations |-> 0,
                       status |-> "running"])
    /\ rpc_log = <<>>
    /\ IdleExceptCollect

\* One iteration of the loop: the request with the token of the page
\* before, any result, and the rest of the body.
RequestPage ==
    /\ collect # None
    /\ Value(collect).status = "running"
    /\ Value(collect).iterations < MAX_PAGES
    /\ \E items \in PageItems(Len(rpc_log) + 1),
          token \in PageTokens(Len(rpc_log) + 1) :
          \E result \in {[samples |-> items, continue_token |-> token]} :
             /\ rpc_log' =
                    Append(rpc_log,
                           [continue_token |->
                                IF Truthy(Value(collect).continue_token)
                                THEN Value(collect).continue_token ELSE None,
                            result |-> result])
             /\ collect' = Some(CollectStep(Value(collect), result))
    /\ UNCHANGED exceptCollect

NextCollect == RequestPage

SpecCollect == InitCollect /\ [][NextCollect]_vars

----------------------------------------------------------------------------
(* Properties of the reconciler *)

Done == status = "done"
Indices == 1..Len(annotations)
HasName(i) == ~IsNone(annotations[i].name)
KeyOf(i) == Stem(Value(annotations[i].name))
SigOf(i) == AnnotationSignature(annotations[i])
IdentityOf(i) == <<annotations[i].label, annotations[i].object_id,
                   annotations[i].group>>
SameLogicalAnnotation(i, j) ==
    /\ HasName(i) /\ HasName(j)
    /\ KeyOf(i) = KeyOf(j)
    /\ IdentityOf(i) = IdentityOf(j)
EntriesOf(g, key) == IF key \in DOMAIN g THEN g[key] ELSE <<>>
IsLoopStep == cursor' = cursor + 1
Permuted(anns, p) == [i \in 1..Len(anns) |-> anns[p[i]]]

Fillable(entry, signature) ==
    /\ entry[1] = signature[1] /\ entry[2] = signature[2]
    /\ entry[3] = signature[3]
    /\ \/ IsNone(entry[4]) /\ ~IsNone(signature[4])
       \/ IsNone(entry[5]) /\ ~IsNone(signature[5])

C2_OrderIndependent ==
    Done =>
        \A p \in Permutations(Indices) :
            BuildAnnotationMap(Permuted(annotations, p))
                = [raised |-> FALSE, map |-> grouped]

RECURSIVE MergeAll(_, _)
MergeAll(entries, signatures) ==
    IF signatures = <<>> THEN entries
    ELSE MergeAll(MergeOrAppend(entries, Head(signatures)), Tail(signatures))

\* C3: merging and sorting the merged entries of each image group again,
\* in their output order, gives the same entries.
C3_Idempotent ==
    Done =>
        \A key \in DOMAIN grouped :
            SortEntries(MergeAll(<<>>, grouped[key])) = grouped[key]

\* Record i carries only a box2d and record j only a mask, they are the
\* only two records of their image with their identity key.
BoxAndMaskPair(i, j) ==
    /\ i # j
    /\ SameLogicalAnnotation(i, j)
    /\ ~IsNone(annotations[i].box2d) /\ IsNone(annotations[i].mask)
    /\ IsNone(annotations[j].box2d) /\ ~IsNone(annotations[j].mask)
    /\ \A k \in Indices \ {i, j} : ~SameLogicalAnnotation(i, k)

\* C4: a box-only and a mask-only fragment of one identity, in either
\* order, end as exactly one entry holding that box and that mask.
C4_BoxAndMaskMerged ==
    Done =>
        \A i, j \in Indices :
            BoxAndMaskPair(i, j) =>
                LET entries == grouped[KeyOf(i)]
                    mine == {n \in 1..Len(entries) :
                                Identity(entries[n]) = IdentityOf(i)}
                IN  /\ Cardinality(mine) = 1
                    /\ \A n \in mine :
                        /\ entries[n][4] = BboxSig(annotations[i])
                        /\ entries[n][5] = MaskSig(annotations[j])

\* C4 witness: such a pair was reconciled, the mask fragment first.
C4_Witness ==
    /\ Done
    /\ \E i, j \in Indices : BoxAndMaskPair(i, j) /\ j < i

\* C5: a loop step keeps every existing entry in place with its identity
\* fields, and leaves a box2d or mask that is already set unchanged; the
\* final sort only reorders the entries of each group.
C5_FillNeverOverwrite ==
    [][/\ IsLoopStep =>
            \A key \in DOMAIN grouped :
                /\ key \in DOMAIN grouped'
                /\ Len(grouped'[key]) >= Len(grouped[key])
                /\ \A n \in 1..Len(grouped[key]) :
                    LET old == grouped[key][n]
                        new == grouped'[key][n]
                    IN  /\ Identity(new) = Identity(old)
                        /\ ~IsNone(old[4]) => new[4] = old[4]
                        /\ ~IsNone(old[5]) => new[5] = old[5]
       /\ status' = "done" =>
            /\ DOMAIN grouped' = DOMAIN grouped
            /\ \A key \in DOMAIN grouped :
                \E p \in Permutations(1..Len(grouped[key])) :
                    grouped'[key] = Permuted(grouped[key], p)
    ]_vars

\* C5 witness: after an entry got its box2d, a record of the same identity
\* with another box2d was processed.
C5_Witness ==
    \E i, j \in 1..cursor :
        /\ i < j
        /\ SameLogicalAnnotation(i, j)
        /\ ~IsNone(BboxSig(annotations[i]))
        /\ ~IsNone(BboxSig(annotations[j]))
        /\ BboxSig(annotations[i]) # BboxSig(annotations[j])

NoRecoverableKey(i) == ~HasName(i) \/ KeyOf(i) = <<>>

\* C6: with a record that has no sample name, or whose name
\* yields an empty stem, no map is returned.
C6_NoKeyNeverReturns ==
    (\E i \in Indices : NoRecoverableKey(i)) => ~Done

\* C7 (as stated): the box3d of every fragment is carried by a merged
\* entry of its identity.
C7_Box3dReconciled ==
    Done =>
        \A i \in Indices :
            ~IsNone(annotations[i].box3d) =>
                \E n \in 1..Len(grouped[KeyOf(i)]) :
                    LET entry == grouped[KeyOf(i)][n]
                    IN  /\ Identity(entry) = IdentityOf(i)
                        /\ Len(entry) > 5
                        /\ entry[6] = annotations[i].box3d

WithoutBox3d(anns) == [i \in 1..Len(anns) |-> [anns[i] EXCEPT !.box3d = None]]

\* C7 (amended): box3d takes no part in reconciliation: a merged entry is
\* (label, object_id, group, box2d, mask) and nothing else, and the
\* returned map is the one returned for the same records without box3d.
C7_Box3dIgnored ==
    Done =>
        /\ \A key \in DOMAIN grouped :
            \A n \in 1..Len(grouped[key]) : Len(grouped[key][n]) = 5
        /\ BuildAnnotationMap(WithoutBox3d(annotations))
                = [raised |-> FALSE, map |-> grouped]

\* C7 witness: an entry without box3d met a fragment of its identity that
\* carries one.
C7_Witness ==
    /\ Done
    /\ \E i, j \in Indices :
        /\ i < j
        /\ SameLogicalAnnotation(i, j)
        /\ IsNone(annotations[i].box3d)
        /\ ~IsNone(annotations[j].box3d)

----------------------------------------------------------------------------
(* Properties of the comparator *)

Returned == ~IsNone(results) /\ ~Value(results).raised
report == Value(results)
Recorded(difference) ==
    \E n \in 1..Len(report.differences) : report.differences[n] = difference
RecordedKind(kind) ==
    \E n \in 1..Len(report.differences) : report.differences[n][1] = kind

\* The annotations the comparator filed under an image key.
AnnotationsOn(g, key) ==
    IF key \in DOMAIN Value(g).anns THEN Value(g).anns[key] ELSE <<>>
AnnotatedKeys(g) == DOMAIN Value(g).anns

\* C8 (as stated): image-key sets that differ give images_match = False
\* and a recorded difference, also when the image counts are equal.
C8_KeySetsCompared ==
    (Returned /\ ImageKeySet(original) # ImageKeySet(exported)) =>
        (~report.images_match /\ RecordedKind("image_count"))

\* C8 (amended): images_match is False, with a recorded difference,
\* exactly when the two collections hold different numbers of images (key
\* sets that differ at equal counts leave it True); whatever the flag, the
\* annotations of every annotated image key of the original are compared:
\* a key whose annotation counts differ is recorded and clears
\* annotations_match.
C8_ImageCountsCompared ==
    Returned =>
        /\ report.images_match
              <=> (Len(original.images) = Len(exported.images))
        /\ RecordedKind("image_count") <=> ~report.images_match
        /\ \A key \in AnnotatedKeys(orig_grouped) :
            LET n == Len(AnnotationsOn(orig_grouped, key))
                m == Len(AnnotationsOn(export_grouped, key))
            IN  n # m =>
                    /\ ~report.annotations_match
                    /\ Recorded(<<"count", key, n, m>>)

\* C8 witness: equally many images, different image keys, images_match True.
C8_Witness ==
    /\ Returned
    /\ ImageKeySet(original) # ImageKeySet(exported)
    /\ Len(original.images) = Len(exported.images)
    /\ report.images_match

\* The comparator's own test passes for the two coordinates.
WithinTolerance(o, e, tol) == ~ExceedsTolerance(o, e, tol)

\* The two lists can be paired one-to-one with equal labels and every
\* bbox component within the tolerance.
Pairable(orig_anns, export_anns, tol) ==
    /\ Len(orig_anns) = Len(export_anns)
    /\ \E p \in Permutations(1..Len(orig_anns)) :
        \A i \in 1..Len(orig_anns) :
            /\ orig_anns[i].label = export_anns[p[i]].label
            /\ \A c \in 1..4 :
                WithinTolerance(orig_anns[i].bbox[c],
                                export_anns[p[i]].bbox[c], tol)

\* C9: when the annotations of every image key can be paired within the
\* tolerance, annotations_match is True.
C9_PairableMatches ==
    (/\ Returned
     /\ \A key \in AnnotatedKeys(orig_grouped)
                      \cup AnnotatedKeys(export_grouped) :
            Pairable(AnnotationsOn(orig_grouped, key),
                     AnnotationsOn(export_grouped, key), tolerance))
        => report.annotations_match

\* The image keys whose annotations are compared pair by pair: those of
\* the original with equally many annotations on both sides.
ComparedKeys ==
    {key \in AnnotatedKeys(orig_grouped) :
        Len(AnnotationsOn(orig_grouped, key))
            = Len(AnnotationsOn(export_grouped, key))}
\* The two sorted lists of a compared key.
ComparedLists(key) ==
    <<SortAnns(AnnotationsOn(orig_grouped, key)),
      SortAnns(AnnotationsOn(export_grouped, key))>>
ComponentDiff(lists, i, c) == AbsDiff(lists[1][i].bbox[c], lists[2][i].bbox[c])

ToleranceRule(key, lists) ==
    \A i \in 1..Len(lists[1]) :
        \A c \in 1..4 :
            LET d == ComponentDiff(lists, i, c)
                recorded == Recorded(<<"bbox", key, i - 1, c - 1>>)
            IN  /\ d = tolerance => ~recorded
                /\ RatLess(d, tolerance) => ~recorded
                /\ RatLess(tolerance, d) =>
                       recorded /\ ~report.annotations_match

\* C10: for a compared pair, a bbox component whose absolute difference
\* equals the tolerance records no difference, and one whose difference is
\* greater records a difference and clears annotations_match.
C10_ToleranceInclusive ==
    Returned =>
        \A key \in ComparedKeys :
            Bind(ComparedLists(key), LAMBDA lists : ToleranceRule(key, lists))

AnnotationKinds == {"count", "label", "bbox"}

----------------------------------------------------------------------------
(* Properties of the geometry conversions *)

ValidDims == geometry.width > 0 /\ geometry.height > 0
RoundTripped == coco_bbox # None

\* abs(result - box) of component c after the round trip, as a double
RoundTripError(c) ==
    DoubleAbsDiff(Value(coco_bbox)[c].d.mag, geometry.bbox[c].d.mag)

OneBits == [i \in 1..(IntegerBits + FractionBits) |->
               IF i = IntegerBits THEN 1 ELSE 0]

\* bits <= 1e-9: bits has no integer part and bits * 10^9 <= 1.
WithinBillionth(bits) ==
    /\ \A i \in 1..IntegerBits : bits[i] = 0
    /\ ~BitsLess(OneBits,
                 ExactTimes(ExactTimes(ExactTimes(bits, 1000), 1000), 1000))

\* bits * 2^-k
ShiftRight(bits, k) ==
    [i \in 1..Len(bits) |-> IF i <= k THEN 0 ELSE bits[i - k]]

C13_InvalidDimsFail ==
    ~ValidDims =>
        /\ normalized_bbox # None =>
               Value(normalized_bbox).error # NoError
        /\ normalized_polygon # None =>
               Value(normalized_polygon).error # NoError

----------------------------------------------------------------------------
(* Properties of the conversions *)

FromCoco == conversion.function = "coco_to_samples"
FromSamples == conversion.function = "samples_to_coco"
Converted == converted # None
SamplesReturned == FromCoco /\ Converted /\ Value(converted).error = NoError
CocoReturned == FromSamples /\ Converted

\* The COCO annotations of the input that belong to image i, in order.
AnnotationsOfImage(i) ==
    SelectSeq(conversion.data.annotations,
              LAMBDA a : a.image_id = conversion.data.images[i].id)

Points(flat) == Len(flat) \div 2
\* f maps 1..n increasingly onto the positions.
Increasing(f, n, positions) ==
    /\ {f[j] : j \in 1..n} = positions
    /\ \A j, k \in 1..n : j < k => f[j] < f[k]

\* out holds exactly the polygons of src with at least 3 points, converted
\* by Convert and in their order; it is None when src has none.
KeepsPolygons(src, out, SrcPoints(_), Convert(_)) ==
    LET long == {j \in 1..Len(src) : SrcPoints(src[j]) >= 3}
    IN  IF long = {} THEN out = None
        ELSE /\ out # None
             /\ Len(Value(out)) = Cardinality(long)
             /\ \E f \in [1..Cardinality(long) -> long] :
                 /\ Increasing(f, Cardinality(long), long)
                 /\ \A j \in 1..Cardinality(long) :
                     Value(out)[j] = Convert(src[f[j]])

LongPolygons(polygons, SrcPoints(_)) ==
    IF IsNone(polygons) THEN None
    ELSE Some(SelectSeq(Value(polygons), LAMBDA poly : SrcPoints(poly) >= 3))
WithoutShortSegmentations(coco_data) ==
    [coco_data EXCEPT !.annotations =
        [k \in 1..Len(@) |->
            [@[k] EXCEPT !.segmentation = LongPolygons(@, Points)]]]
WithoutShortMasks(samples) ==
    [i \in 1..Len(samples) |->
        [samples[i] EXCEPT !.annotations =
            [k \in 1..Len(@) |->
                [@[k] EXCEPT !.mask = LongPolygons(@, Len)]]]]
ShortPolygonSupplied ==
    \/ FromCoco /\ WithoutShortSegmentations(conversion.data) # conversion.data
    \/ FromSamples /\ conversion.include_masks
          /\ WithoutShortMasks(conversion.data) # conversion.data

\* C15 as stated: a conversion that was given a polygon of fewer than 3
\* points ends with an error.
C15_ShortPolygonRaises ==
    (Converted /\ ShortPolygonSupplied) =>
        (FromCoco /\ Value(converted).error # NoError)

\* C15 amended: a polygon of fewer than 3 points raises no error; the
\* conversion returns what it returns for the input without that polygon.
C15_ShortPolygonIgnored ==
    /\ (FromCoco /\ Converted) =>
        /\ Value(converted).error = NoError
        /\ Value(converted) =
               CocoToSamples(WithoutShortSegmentations(conversion.data),
                             conversion.group)
    /\ CocoReturned =>
        Value(converted) =
            SamplesToCoco(WithoutShortMasks(conversion.data),
                          conversion.include_masks)

\* C15 witness: samples_to_coco returned for a mask with a polygon of
\* fewer than 3 points.
C15_Witness ==
    /\ CocoReturned
    /\ ShortPolygonSupplied
    /\ Len(Value(converted).annotations) > 0

\* The label names samples_to_coco has seen, in loop order.
LabelsSeen ==
    [n \in 1..Len(SampleAnnotations(conversion.data)) |->
        LabelOrUnknown(SampleAnnotations(conversion.data)[n].ann)]
\* The positions at which a name is seen for the first time.
FirstSeen == {n \in 1..Len(LabelsSeen) :
                 \A m \in 1..(n - 1) : LabelsSeen[m] # LabelsSeen[n]}
KthFirstSeen(k) ==
    CHOOSE n \in FirstSeen : Cardinality({m \in FirstSeen : m <= n}) = k

\* C16: the category table of samples_to_coco is a bijection between the
\* distinct label names seen and 1..N, the k-th distinct name in first-seen
\* order has index k, and every annotation carries the index its name got
\* when first seen.
C16_CategoryTableBijective ==
    CocoReturned =>
        LET categories == Value(converted).categories
            N == Cardinality(FirstSeen)
        IN  /\ Len(categories) = N
            /\ \A k \in 1..N : categories[k].id = k
            /\ \A j, k \in 1..N :
                   categories[j].name = categories[k].name => j = k
            /\ {categories[k].name : k \in 1..N}
                   = {LabelsSeen[n] : n \in 1..Len(LabelsSeen)}
            /\ \A k \in 1..N : categories[k].name = LabelsSeen[KthFirstSeen(k)]
            /\ \A n \in 1..Len(LabelsSeen) :
                   /\ Value(converted).annotations[n].category_id \in 1..N
                   /\ categories[Value(converted).annotations[n].category_id]
                          .name = LabelsSeen[n]

\* C16 witness: a name seen again after another name keeps index 1.
C16_Witness ==
    /\ CocoReturned
    /\ Len(LabelsSeen) = 3
    /\ LabelsSeen[1] = LabelsSeen[3]
    /\ LabelsSeen[1] # LabelsSeen[2]
    /\ Len(Value(converted).categories) = 2
    /\ Value(converted).annotations[3].category_id = 1

\* An annotation of a listed image whose category_id is not in the
\* categories list.
UnlistedCategory(ann) ==
    /\ \E i \in 1..Len(conversion.data.images) :
           conversion.data.images[i].id = ann.image_id
    /\ \A c \in 1..Len(conversion.data.categories) :
           conversion.data.categories[c].id # ann.category_id

\* C17: coco_to_samples given an annotation whose category_id is not in the
\* categories list ends with an error and converts nothing under a
\* placeholder label.
C17_UnknownCategoryFails ==
    (FromCoco /\ Converted
        /\ \E k \in 1..Len(conversion.data.annotations) :
               UnlistedCategory(conversion.data.annotations[k]))
    => Value(converted).error # NoError

----------------------------------------------------------------------------
(* Properties of the sequence identifiers *)

\* The arguments of the calls of generate_sequence_uuid that are run.
CallsOfGenerate ==
    IF sequence.function = "generate_sequence_uuid" THEN sequence.calls
    ELSE IF sequence.function = "test_sequence_upload_and_verification"
    THEN [k \in 1..Len(sequence.seq_names) |->
             <<sequence.dataset_id_str, sequence.seq_names[k]>>]
    ELSE <<>>

\* The SHA-1 digest of "{dataset_id}/{sequence_name}" for call k.
DigestOfCall(k) ==
    Sha1Digest(Utf8Encode(CallsOfGenerate[k][1] \o <<"/">>
                              \o CallsOfGenerate[k][2]))

HexValue(c) == CHOOSE v \in 0..15 : HexDigits[v + 1] = c
\* The 16 bytes a UUID string stands for.
BytesOfUuid(str) ==
    LET digits == SelectSeq(str, LAMBDA c : c # "-")
    IN  [i \in 1..(Len(digits) \div 2) |->
            16 * HexValue(digits[2 * i - 1]) + HexValue(digits[2 * i])]

\* C18: the identifier is the first 16 bytes of the SHA-1 digest of
\* "{dataset_id}/{sequence_name}" with the high nibble of byte 6 replaced by
\* 0x5 and the top two bits of byte 8 by binary 10, every other bit being
\* the digest's, and calls with equal arguments give equal identifiers.
C18_IdentifierIsMaskedDigest ==
    /\ \A k \in 1..Len(sequence_uuids) :
        \E digest \in {DigestOfCall(k)},
           bytes \in {BytesOfUuid(sequence_uuids[k])} :
            /\ Len(sequence_uuids[k]) = 36
            /\ Len(bytes) = 16
            /\ \A i \in (1..16) \ {7, 9} : bytes[i] = digest[i]
            /\ bytes[7] \div 16 = 5
            /\ bytes[7] % 16 = digest[7] % 16
            /\ bytes[9] \div 64 = 2
            /\ bytes[9] % 64 = digest[9] % 64
    /\ \A j, k \in 1..Len(sequence_uuids) :
        CallsOfGenerate[j] = CallsOfGenerate[k]
            => sequence_uuids[j] = sequence_uuids[k]

\* C18 witness: two calls with equal arguments have returned, and the
\* digest had another high nibble in byte 6 and other top bits in byte 8.
C18_Witness ==
    /\ sequence.function = "generate_sequence_uuid"
    /\ Len(sequence_uuids) = 2
    /\ sequence.calls[1] = sequence.calls[2]
    /\ \E digest \in {DigestOfCall(1)} :
        /\ digest[7] \div 16 # 5
        /\ digest[9] \div 64 # 2
        /\ digest[7] % 16 # 0

CallsReturned == 1..Len(sequence_uuids)
HasSlash(str) == \E i \in 1..Len(str) : str[i] = "/"
\* The digest input "{dataset_id}/{sequence_name}" of call k.
DigestInput(k) == CallsOfGenerate[k][1] \o <<"/">> \o CallsOfGenerate[k][2]

\* C19 as stated: two calls with distinct (dataset_id, sequence_name) pairs
\* never return the same identifier, whatever characters the strings hold.
C19_DistinctPairsDistinctIds ==
    \A j, k \in CallsReturned :
        CallsOfGenerate[j] # CallsOfGenerate[k]
            => sequence_uuids[j] # sequence_uuids[k]

\* C19 amended: two calls return the same identifier exactly when their
\* digest inputs are the same string; distinct pairs give distinct inputs,
\* and so distinct identifiers, when neither dataset_id contains "/".
C19_DistinctInputsDistinctIds ==
    \A j, k \in CallsReturned :
        /\ (sequence_uuids[j] = sequence_uuids[k])
               <=> (DigestInput(j) = DigestInput(k))
        /\ (/\ ~HasSlash(CallsOfGenerate[j][1])
            /\ ~HasSlash(CallsOfGenerate[k][1])
            /\ CallsOfGenerate[j] # CallsOfGenerate[k])
               => sequence_uuids[j] # sequence_uuids[k]

\* C19 witness: two calls with distinct pairs, no "/" in either
\* dataset_id and a "/" in a sequence name, returned distinct identifiers.
C19_Witness ==
    /\ sequence.function = "generate_sequence_uuid"
    /\ Len(sequence_uuids) = 2
    /\ ~HasSlash(sequence.calls[1][1])
    /\ ~HasSlash(sequence.calls[2][1])
    /\ sequence.calls[1][1] # sequence.calls[2][1]
    /\ HasSlash(sequence.calls[1][2])
    /\ sequence_uuids[1] # sequence_uuids[2]

\* The sequence invariant of a Sample: with a sequence_name it carries a
\* sequence_uuid, without one it carries neither sequence_uuid nor
\* frame_number.
SequenceInvariant(sample) ==
    IF ~IsNone(sample.sequence_name)
    THEN ~IsNone(sample.sequence_uuid)
    ELSE IsNone(sample.sequence_uuid) /\ IsNone(sample.frame_number)

\* C20: every Sample built for upload satisfies the sequence invariant,
\* and in the upload test its sequence_uuid is the identifier derived from
\* the dataset id and its sequence_name.
C20_UploadsKeepSequenceInvariant ==
    \A i \in 1..Len(uploads) :
        /\ SequenceInvariant(uploads[i])
        /\ (/\ sequence.function = "test_sequence_upload_and_verification"
            /\ ~IsNone(uploads[i].sequence_name))
           => \E k \in 1..Len(sequence_uuids) :
                /\ CallsOfGenerate[k][2] = Value(uploads[i].sequence_name)
                /\ Value(uploads[i].sequence_uuid) = sequence_uuids[k]

----------------------------------------------------------------------------
(* Further properties of the conversions *)

\* An annotation of the COCO input whose image_id is the id of no image.
Unlinked(ann) ==
    \A i \in 1..Len(conversion.data.images) :
        conversion.data.images[i].id # ann.image_id

\* C21: coco_to_samples given an annotation whose image_id matches no
\* image record ends with an error instead of returning samples that omit
\* the annotation.
C21_UnlinkedAnnotationFails ==
    (FromCoco /\ Converted
        /\ \E k \in 1..Len(conversion.data.annotations) :
               Unlinked(conversion.data.annotations[k]))
    => Value(converted).error # NoError

\* Two distinct images of the COCO input whose file names have one stem.
DuplicateImageKey ==
    \E i, j \in 1..Len(conversion.data.images) :
        /\ i # j
        /\ Stem(conversion.data.images[i].file_name)
               = Stem(conversion.data.images[j].file_name)

\* C22: coco_to_samples given two distinct images with the same file-name
\* stem ends with an error.
C22_DuplicateImageKeyFails ==
    (FromCoco /\ Converted /\ DuplicateImageKey)
        => Value(converted).error # NoError

\* The COCO input is well formed: every annotation is of a listed image and
\* a listed category, and every category has an annotation.
WellFormedCoco ==
    LET data == conversion.data
    IN  /\ \A k \in 1..Len(data.annotations) :
              /\ ~Unlinked(data.annotations[k])
              /\ \E c \in 1..Len(data.categories) :
                     data.categories[c].id = data.annotations[k].category_id
        /\ \A c \in 1..Len(data.categories) :
              \E k \in 1..Len(data.annotations) :
                  data.categories[c].id = data.annotations[k].category_id

\* The COCO input has been converted to samples and back.
RoundTripFromCoco == FromCoco /\ converted_back # None

\* The exact values of a bbox
ExactBox(bbox) == [c \in 1..Len(bbox) |-> bbox[c].q]

\* The position in "images" of the image with the id
ImagePosition(images, id) == CHOOSE i \in 1..Len(images) : images[i].id = id

\* C23: a well-formed COCO collection converted with coco_to_samples and back
\* with samples_to_coco has as many images and annotations as before and the
\* same set of category names, and every annotation's bbox is returned with
\* its exact values on the image at the same position.
C23_RoundTripReproducesBoxes ==
    (RoundTripFromCoco /\ WellFormedCoco) =>
        LET data == conversion.data
            back == Value(converted_back)
        IN  /\ Len(back.images) = Len(data.images)
            /\ Len(back.annotations) = Len(data.annotations)
            /\ {back.categories[c].name : c \in 1..Len(back.categories)}
                   = {data.categories[c].name : c \in 1..Len(data.categories)}
            /\ \A k \in 1..Len(data.annotations) :
                  \E n \in 1..Len(back.annotations) :
                      /\ ImagePosition(back.images, back.annotations[n].image_id)
                             = ImagePosition(data.images,
                                             data.annotations[k].image_id)
                      /\ ExactBox(back.annotations[n].bbox)
                             = ExactBox(data.annotations[k].bbox)

\* The samples have been converted to COCO and back.
RoundTripFromSamples == FromSamples /\ converted_back # None

\* C30: samples converted with samples_to_coco and back with coco_to_samples
\* keep their annotations in place, and an annotation that had no box2d has
\* none afterwards.
C30_RoundTripKeepsMissingBox ==
    RoundTripFromSamples =>
        LET samples == conversion.data
            back == Value(converted_back).samples
        IN  /\ Len(back) = Len(samples)
            /\ \A i \in 1..Len(samples) :
                  /\ Len(back[i].annotations) = Len(samples[i].annotations)
                  /\ \A k \in 1..Len(samples[i].annotations) :
                        IsNone(samples[i].annotations[k].box2d)
                            => IsNone(back[i].annotations[k].box2d)

----------------------------------------------------------------------------
(* Further properties of the comparator *)

\* The report of the call with the two collections exchanged.
ExchangedReport ==
    CompareGrouped(exported, original, tolerance,
                   GroupByImage(exported), GroupByImage(original))

\* C28: the call with the two collections exchanged returns the same three
\* flags.
C28_VerdictSymmetric ==
    Returned =>
        \E exchanged \in {ExchangedReport} :
            /\ exchanged.images_match = report.images_match
            /\ exchanged.categories_match = report.categories_match
            /\ exchanged.annotations_match = report.annotations_match

\* C29: in every report the list of differences is empty exactly when the
\* three flags are all True.
C29_DifferencesIffFlagCleared ==
    Returned =>
        ((report.differences = <<>>)
            <=> (/\ report.images_match
                 /\ report.categories_match
                 /\ report.annotations_match))

\* C29 witness: annotations were compared pair by pair and the report has
\* the three flags True and no difference.
C29_Witness ==
    /\ Returned
    /\ ComparedKeys # {}
    /\ report.images_match
    /\ report.categories_match
    /\ report.annotations_match
    /\ report.differences = <<>>

----------------------------------------------------------------------------
(* Properties of the progress callback *)

LastReport == reports[Len(reports)]

\* C24: after every call of the callback, whatever was reported before, the
\* position of the bar is the current value just reported and its total is
\* the total just reported.
C24_BarShowsLastReport ==
    reports # <<>> =>
        /\ pbar.n = LastReport.current
        /\ pbar.total = LastReport.total

\* C24 witness: after a report, a report with a smaller current value and
\* another total was made, and then the same report again.
C24_Witness ==
    /\ Len(reports) >= 3
    /\ \E k \in 2..(Len(reports) - 1) :
          /\ reports[k].current < reports[k - 1].current
          /\ reports[k].total # reports[k - 1].total
          /\ reports[k + 1] = reports[k]
    /\ pbar.n = LastReport.current

----------------------------------------------------------------------------
(* Properties of the token storage *)

\* The positions of the store and clear calls made on an object before
\* call k.
WritesBefore(self, k) ==
    {j \in 1..(k - 1) :
        /\ storage_calls[j].self = self
        /\ storage_calls[j].method \in {"store", "clear"}}

\* What a single-value register holds before call k: the token of the most
\* recent store on the object unless a clear came after it, None initially.
RegisterBefore(self, k) ==
    IF WritesBefore(self, k) = {} THEN None
    ELSE LET j == CHOOSE j \in WritesBefore(self, k) :
                      \A i \in WritesBefore(self, k) : i <= j
         IN  IF storage_calls[j].method = "store"
             THEN Some(storage_calls[j].token)
             ELSE None

\* C25: every load returns the token of the most recent store on the same
\* object, or None when there was none or a clear came after it; calls on
\* the other object do not change what is returned, and every clear ends
\* with the object empty.
C25_SingleValueRegister ==
    /\ \A k \in 1..Len(storage_calls) :
          storage_calls[k].method = "load"
              => storage_calls[k].returned
                     = RegisterBefore(storage_calls[k].self, k)
    /\ \A self \in Storages :
          storages[self] = RegisterBefore(self, Len(storage_calls) + 1)

\* C25 witness: a token was stored in one object, the other object was
\* cleared while empty, and the first object then returned its token.
C25_Witness ==
    /\ Len(storage_calls) >= 3
    /\ \E k \in 3..Len(storage_calls) :
          /\ storage_calls[k - 2].method = "store"
          /\ storage_calls[k - 1].method = "clear"
          /\ storage_calls[k - 1].self # storage_calls[k - 2].self
          /\ storage_calls[k].method = "load"
          /\ storage_calls[k].self = storage_calls[k - 2].self
          /\ storage_calls[k].returned = Some(storage_calls[k - 2].token)

----------------------------------------------------------------------------
(* Properties of the label re-indexing *)

\* The range the first pass writes: 1000..1079 for the 80 labels
FirstPassRange == IndexOffset..(IndexOffset + MaxLabels - 1)

\* The indices the labels had when fetched are outside the range of the
\* first pass (they are pairwise distinct in every dataset).
InitialIndicesOutsideRange ==
    \A k \in 1..Len(dataset_labels) :
        dataset_labels[k].index \notin FirstPassRange

NoSharedIndex ==
    \A a, b \in DOMAIN label_index : a # b => label_index[a] # label_index[b]

\* C26: when the indices of the fetched labels are pairwise distinct and
\* none is in the range of the first pass, no two labels share an index
\* after any set_index call, and after the second pass every label has the
\* index of its name in the COCO table.
C26_NoSharedIndexWhileReindexing ==
    (indexing # None /\ InitialIndicesOutsideRange) =>
        /\ NoSharedIndex
        /\ indexing.pass >= 3 =>
               \A name \in DOMAIN label_index :
                   label_index[name] = coco_indices[name]
        /\ indexing.pass = 4 => indexing.verified = Some(TRUE)

\* C26 witness: labels whose fetched indices were a permutation of the
\* final ones, none at its own, are in the second pass with one label done.
C26_Witness ==
    /\ indexing # None
    /\ InitialIndicesOutsideRange
    /\ \A k \in 1..Len(dataset_labels) :
          /\ dataset_labels[k].index \in DOMAIN coco_labels
          /\ dataset_labels[k].index # coco_indices[dataset_labels[k].name]
    /\ indexing.pass = 2
    /\ indexing.done = 1
    /\ NoSharedIndex

----------------------------------------------------------------------------
(* Properties of the pagination *)

\* The page carries a continuation token: a str that is not empty.
CarriesToken(result) ==
    /\ result.continue_token.type = "str"
    /\ result.continue_token.value # <<>>

\* The samples of the pages fetched, in order
SamplesFetched ==
    Flatten([k \in 1..Len(rpc_log) |->
                SelectSeq(rpc_log[k].result.samples,
                          LAMBDA item : item.type = "dict")])

Collecting == collect # None
LastPage == rpc_log[Len(rpc_log)].result

\* At most MAX_PAGES requests are made, each after the first carries the
\* token of the page before, and the function goes on exactly while the
\* pages carry tokens and fewer than MAX_PAGES were fetched.
RequestsFollowTokens ==
    /\ Len(rpc_log) <= MAX_PAGES
    /\ Len(rpc_log) = Value(collect).iterations
    /\ \A k \in 1..Len(rpc_log) :
          /\ rpc_log[k].continue_token =
                 (IF k = 1 THEN None
                  ELSE Some(rpc_log[k - 1].result.continue_token.value))
          /\ k < Len(rpc_log) => CarriesToken(rpc_log[k].result)
    /\ Value(collect).status = "running"
           <=> (/\ Len(rpc_log) < MAX_PAGES
                /\ rpc_log # <<>> => CarriesToken(LastPage))
    /\ Value(collect).status = "failed: Exceeded MAX_PAGES"
           <=> (Len(rpc_log) = MAX_PAGES /\ CarriesToken(LastPage))

====
